---------------------------- MODULE Spec2Model ----------------------------
(***************************************************************************)
(* ApexCalculator.calculate_hold_time_stats (src/apex_fork.py 705-901):    *)
(* the FIFO lot-matching pass over an account's fills and the aggregation  *)
(* of the holding times of the positions it pairs.                         *)
(*                                                                         *)
(* Conventions of the model.                                               *)
(*  - A Python str is a sequence of one-character strings, so that strip,  *)
(*    lower, "in" and float() are computed and not assumed.                *)
(*  - A size is a fixed-point number: the integer n stands for n * 5e-10,  *)
(*    so the 1e-9 of the matching loops is EPS == 2, and 1 and 2 are the   *)
(*    sizes at or below it.  Arithmetic on sizes is exact (binary          *)
(*    floating-point rounding is not modelled).  A size written as a       *)
(*    string is the decimal numeral of that integer.                       *)
(*  - A timestamp is an integer number of ticks of one hour (TICK_MS).     *)
(*  - The local timezone (tz_offset) is an offset from UTC and at most one *)
(*    change of it, by `shift` ticks from the tick `at` on: the zone that  *)
(*    datetime.now() and datetime.fromtimestamp() read from the platform.  *)
(*  - A key that is absent from a fill reads as the default of its         *)
(*    fill.get(key, default): coin "", dir "", time 0, sz 0.               *)
(*  - History: a lot [open time, remaining size] carries as a third        *)
(*    component the index (in sorted_fills) of the fill that opened it,    *)
(*    and position_tags names, per completed position, the coin, the side, *)
(*    the lot and the closing fill.  long_before, short_before and         *)
(*    positions_before hold the queues and the number of completed         *)
(*    positions as the current iteration of the for loop found them.  The  *)
(*    program records none of these, and no guard or program variable of   *)
(*    the model depends on them.                                           *)
(*  - Calls on one instance from several threads: the state above is that  *)
(*    of the call whose thread runs; `parked` holds the arguments and      *)
(*    locals of a second call while its thread waits, and Switch schedules *)
(*    it.  Only SpecRuns has a second call.                                *)
(***************************************************************************)
EXTENDS Integers, Sequences, FiniteSets, TLC

VARIABLES
    fills,                  \* the argument of the call
    now,                    \* the clock read by datetime.now(), in ticks
    tz_offset,              \* the local zone: [base, at, shift], in ticks
    pc,                     \* "start" | "for" | "sell" | "close_long" |
                            \* "close_short" | "short_to_long" |
                            \* "long_to_short" | "done" | "raised"
    sorted_fills,
    idx,                    \* number of fills the for loop has taken
    coin, timestamp, size,  \* locals of the current iteration
    remaining_size,
    long_open_positions,    \* coin -> list of [open time, remaining size]
    short_open_positions,
    completed_positions,    \* list of (open_time, close_time, size)
    result,                 \* the returned dict
    error,                  \* the exception that left the call, "" if none
    position_tags,          \* history: per completed position, who made it
    long_before,            \* history: the queues and the number of completed
    short_before,           \*   positions when the current iteration began
    positions_before,
    parked                  \* the locals of another call on the same instance
                            \* that is not running now, NoRun if there is none

vars == <<fills, now, tz_offset, pc, sorted_fills, idx, coin, timestamp, size,
          remaining_size, long_open_positions, short_open_positions,
          completed_positions, result, error, position_tags,
          long_before, short_before, positions_before, parked>>

-----------------------------------------------------------------------------
(* Bounds of the model *)

MaxFills == 3

MaxSize == 5

-----------------------------------------------------------------------------
(* Program constants *)

\* 1e-9 in units of 5e-10
EPS == 2

MS_PER_SEC == 1000

SEC_PER_DAY == 86400

WEEK_DAYS == 7

MONTH_DAYS == 30

\* The model counts time in ticks of one hour: a timestamp t stands for
\* t * TICK_MS milliseconds, datetime.fromtimestamp(t / 1000) for t * 3600 s.
TICK_MS == 3600 * MS_PER_SEC

TICKS_PER_DAY == (SEC_PER_DAY * MS_PER_SEC) \div TICK_MS

-----------------------------------------------------------------------------
(* Python strings *)

Upper == <<"A","B","C","D","E","F","G","H","I","J","K","L","M",
           "N","O","P","Q","R","S","T","U","V","W","X","Y","Z">>

Lower == <<"a","b","c","d","e","f","g","h","i","j","k","l","m",
           "n","o","p","q","r","s","t","u","v","w","x","y","z">>

\* str.lower() on one character
LowerChar(c) ==
    IF \E k \in 1..26 : Upper[k] = c
    THEN Lower[CHOOSE k \in 1..26 : Upper[k] = c]
    ELSE c

\* str.lower()
StrLower(s) == [k \in 1..Len(s) |-> LowerChar(s[k])]

IsSpace(c) == c = " "

RECURSIVE LStrip(_)
LStrip(s) == IF s # <<>> /\ IsSpace(Head(s)) THEN LStrip(Tail(s)) ELSE s

RECURSIVE RStrip(_)
RStrip(s) ==
    IF s # <<>> /\ IsSpace(s[Len(s)]) THEN RStrip(SubSeq(s, 1, Len(s) - 1)) ELSE s

\* str.strip()
Strip(s) == RStrip(LStrip(s))

\* sub in s
Contains(sub, s) ==
    \E k \in 1..(Len(s) - Len(sub) + 1) : SubSeq(s, k, k + Len(sub) - 1) = sub

Digits == <<"0","1","2","3","4","5","6","7","8","9">>

IsDigit(c) == \E k \in 1..10 : Digits[k] = c

DigitVal(c) == (CHOOSE k \in 1..10 : Digits[k] = c) - 1

RECURSIVE DigitsVal(_)
DigitsVal(s) ==
    IF s = <<>> THEN 0 ELSE DigitsVal(SubSeq(s, 1, Len(s) - 1)) * 10 + DigitVal(s[Len(s)])

AllDigits(s) == s # <<>> /\ \A k \in 1..Len(s) : IsDigit(s[k])

\* the numerals float() reads here: [sign] digits, spaces around allowed
Unsigned(s) == IF s # <<>> /\ Head(s) \in {"-", "+"} THEN Tail(s) ELSE s

IsNumeral(s) == AllDigits(Unsigned(Strip(s)))

NumeralVal(s) ==
    LET t == Strip(s)
    IN  IF Head(t) = "-" THEN 0 - DigitsVal(Unsigned(t)) ELSE DigitsVal(Unsigned(t))

-----------------------------------------------------------------------------
(* Python values of the 'dir' and 'sz' fields *)

Str(s) == [k |-> "str", n |-> 0, s |-> s]

Num(n) == [k |-> "num", n |-> n, s |-> <<>>]

None == [k |-> "none", n |-> 0, s |-> <<>>]

\* float(v): the exception it raises, "" if none
FloatError(v) ==
    CASE v.k = "num" -> ""
      [] v.k = "none" -> "TypeError"
      [] OTHER -> IF IsNumeral(v.s) THEN "" ELSE "ValueError"

\* float(v) when it raises nothing
FloatValue(v) == IF v.k = "num" THEN v.n ELSE NumeralVal(v.s)

Abs(x) == IF x < 0 THEN 0 - x ELSE x


-----------------------------------------------------------------------------
(* The literals of the direction dispatch, lines 781-857 *)

S_Buy == <<"B","u","y">>

S_Sell == <<"S","e","l","l">>

S_open_long == <<"o","p","e","n"," ","l","o","n","g">>

S_open_short == <<"o","p","e","n"," ","s","h","o","r","t">>

S_close_long == <<"c","l","o","s","e"," ","l","o","n","g">>

S_close_short == <<"c","l","o","s","e"," ","s","h","o","r","t">>

S_short == <<"s","h","o","r","t">>

S_long == <<"l","o","n","g">>

S_short_gt_long == <<"s","h","o","r","t"," ",">"," ","l","o","n","g">>

S_shortgtlong == <<"s","h","o","r","t",">","l","o","n","g">>

S_long_gt_short == <<"l","o","n","g"," ",">"," ","s","h","o","r","t">>

S_longgtshort == <<"l","o","n","g",">","s","h","o","r","t">>

\* A dispatch whose last branch opens a long
BranchOfLoose(direction, dir_lower) ==
        IF direction = S_Buy THEN "buy"
        ELSE IF direction = S_Sell THEN "sell"
        ELSE IF Contains(S_open_short, dir_lower) /\ ~Contains(S_long, dir_lower)
             THEN "open_short"
        ELSE IF Contains(S_close_long, dir_lower) /\ ~Contains(S_short, dir_lower)
             THEN "close_long"
        ELSE IF Contains(S_close_short, dir_lower) /\ ~Contains(S_long, dir_lower)
             THEN "close_short"
        ELSE IF Contains(S_short_gt_long, dir_lower) \/ Contains(S_shortgtlong, dir_lower)
             THEN "short_to_long"
        ELSE IF Contains(S_long_gt_short, dir_lower) \/ Contains(S_longgtshort, dir_lower)
             THEN "long_to_short"
        ELSE "open_long"

\* The branch of the if/elif chain that a (stripped) direction takes
BranchOf(direction, dir_lower) ==
        IF direction = S_Buy THEN "buy"
        ELSE IF direction = S_Sell THEN "sell"
        ELSE IF Contains(S_open_long, dir_lower) /\ ~Contains(S_short, dir_lower)
             THEN "open_long"
        ELSE IF Contains(S_open_short, dir_lower) /\ ~Contains(S_long, dir_lower)
             THEN "open_short"
        ELSE IF Contains(S_close_long, dir_lower) /\ ~Contains(S_short, dir_lower)
             THEN "close_long"
        ELSE IF Contains(S_close_short, dir_lower) /\ ~Contains(S_long, dir_lower)
             THEN "close_short"
        ELSE IF Contains(S_short_gt_long, dir_lower) \/ Contains(S_shortgtlong, dir_lower)
             THEN "short_to_long"
        ELSE IF Contains(S_long_gt_short, dir_lower) \/ Contains(S_longgtshort, dir_lower)
             THEN "long_to_short"
        ELSE "none"

\* dir_lower = direction.lower(), line 778
Branch(direction) == BranchOf(direction, StrLower(direction))

-----------------------------------------------------------------------------
(* sorted(fills, key=lambda x: x.get('time', 0)), line 757 *)

SortKey(x) == x.time

Front(s) == SubSeq(s, 1, Len(s) - 1)

Last(s) == s[Len(s)]

\* An insertion that puts x in front of the elements with its own key
RECURSIVE InsertByTimeUnstable(_, _)
InsertByTimeUnstable(s, x) ==
    IF s = <<>> \/ SortKey(Last(s)) < SortKey(x)
    THEN Append(s, x)
    ELSE Append(InsertByTimeUnstable(Front(s), x), Last(s))

\* x goes behind every element whose key is <= its own: equal keys keep
\* their input order
RECURSIVE InsertByTime(_, _)
InsertByTime(s, x) ==
    IF s = <<>> \/ SortKey(Last(s)) <= SortKey(x)
    THEN Append(s, x)
    ELSE Append(InsertByTime(Front(s), x), Last(s))

\* The fills taken in input order, without the sort
InputOrder(f) == f

\* sorted(fills, key=lambda x: x.get('time', 0)), line 757
RECURSIVE SortedByTime(_)
SortedByTime(f) ==
    IF f = <<>> THEN <<>> ELSE InsertByTime(SortedByTime(Front(f)), Last(f))

-----------------------------------------------------------------------------
(* The lot queues *)

Coins == {"BTC", "ETH"}

EmptyBook == [c \in Coins |-> <<>>]

\* A matching loop that pairs the youngest lot first
MatchBodyLifo(q, rem, ts) ==
    LET open_time == Last(q)[1]
        open_size == Last(q)[2]
    IN  IF open_size <= rem
        THEN [pos |-> <<open_time, ts, open_size>>,
              rem |-> rem - open_size,
              q   |-> Front(q),
              lot |-> Last(q)[3]]
        ELSE [pos |-> <<open_time, ts, rem>>,
              rem |-> 0,
              q   |-> Front(q) \o <<<<open_time, open_size - rem, Last(q)[3]>>>>,
              lot |-> Last(q)[3]]

\* A matching loop whose partial close records the whole lot
MatchBodyWhole(q, rem, ts) ==
    LET open_time == q[1][1]
        open_size == q[1][2]
    IN  IF open_size <= rem
        THEN [pos |-> <<open_time, ts, open_size>>,
              rem |-> rem - open_size,
              q   |-> Tail(q),
              lot |-> q[1][3]]
        ELSE [pos |-> <<open_time, ts, open_size>>,
              rem |-> 0,
              q   |-> <<<<open_time, open_size - rem, q[1][3]>>>> \o Tail(q),
              lot |-> q[1][3]]

\* A matching loop whose partial close leaves the lot as it was
MatchBodyKeep(q, rem, ts) ==
    LET open_time == q[1][1]
        open_size == q[1][2]
    IN  IF open_size <= rem
        THEN [pos |-> <<open_time, ts, open_size>>,
              rem |-> rem - open_size,
              q   |-> Tail(q),
              lot |-> q[1][3]]
        ELSE [pos |-> <<open_time, ts, rem>>,
              rem |-> 0,
              q   |-> q,
              lot |-> q[1][3]]

\* A matching loop that records what the Close still asks for when it
\* consumes a whole lot
MatchBodyAsked(q, rem, ts) ==
    LET open_time == q[1][1]
        open_size == q[1][2]
    IN  IF open_size <= rem
        THEN [pos |-> <<open_time, ts, rem>>,
              rem |-> rem - open_size,
              q   |-> Tail(q),
              lot |-> q[1][3]]
        ELSE [pos |-> <<open_time, ts, rem>>,
              rem |-> 0,
              q   |-> <<<<open_time, open_size - rem, q[1][3]>>>> \o Tail(q),
              lot |-> q[1][3]]

\* A matching loop that tests open_size < remaining_size: a Close of exactly
\* the size of the lot cuts it to nothing and leaves it queued
MatchBodyStrict(q, rem, ts) ==
    LET open_time == q[1][1]
        open_size == q[1][2]
    IN  IF open_size < rem
        THEN [pos |-> <<open_time, ts, open_size>>,
              rem |-> rem - open_size,
              q   |-> Tail(q),
              lot |-> q[1][3]]
        ELSE [pos |-> <<open_time, ts, rem>>,
              rem |-> 0,
              q   |-> <<<<open_time, open_size - rem, q[1][3]>>>> \o Tail(q),
              lot |-> q[1][3]]

\* A matching loop that consumes a whole lot without counting it against
\* the size of the Close
MatchBodyUncounted(q, rem, ts) ==
    LET open_time == q[1][1]
        open_size == q[1][2]
    IN  IF open_size <= rem
        THEN [pos |-> <<open_time, ts, open_size>>,
              rem |-> rem,
              q   |-> Tail(q),
              lot |-> q[1][3]]
        ELSE [pos |-> <<open_time, ts, rem>>,
              rem |-> 0,
              q   |-> <<<<open_time, open_size - rem, q[1][3]>>>> \o Tail(q),
              lot |-> q[1][3]]

\* One pass of the body of a matching loop (lines 816-827, and its copies
\* 790-801 and 834-845) on queue q with rem left to close at time ts
MatchBody(q, rem, ts) ==
    LET open_time == q[1][1]
        open_size == q[1][2]
    IN  IF open_size <= rem
        THEN [pos |-> <<open_time, ts, open_size>>,
              rem |-> rem - open_size,
              q   |-> Tail(q),
              lot |-> q[1][3]]
        ELSE [pos |-> <<open_time, ts, rem>>,
              rem |-> 0,
              q   |-> <<<<open_time, open_size - rem, q[1][3]>>>> \o Tail(q),
              lot |-> q[1][3]]

\* The condition of a matching loop (lines 789, 815, 833)
MatchCond(q, rem) == rem > EPS /\ q # <<>>

\* A drain that closes the oldest lot and discards the others
DrainBodyOne(q, ts) ==
    [pos |-> <<q[1][1], ts, q[1][2]>>,
     q   |-> <<>>,
     lot |-> q[1][3]]

\* A drain that reads the oldest lot and leaves it in the queue
DrainBodyPeek(q, ts) ==
    [pos |-> <<q[1][1], ts, q[1][2]>>, q |-> q, lot |-> q[1][3]]

\* One pass of the body of a flip's drain loop (lines 851-852, 860-861)
DrainBody(q, ts) ==
    [pos |-> <<q[1][1], ts, q[1][2]>>, q |-> Tail(q), lot |-> q[1][3]]


-----------------------------------------------------------------------------
(* Aggregation, lines 743-746 and 865-901 *)

\* A zone that keeps one offset from UTC
FixedZone(o) == [base |-> o, at |-> 0, shift |-> 0]

\* local time minus UTC at the instant t
UtcOffset(t) == tz_offset.base + (IF t >= tz_offset.at THEN tz_offset.shift ELSE 0)

\* datetime.fromtimestamp(t / 1000), as naive local time in ticks
FromTimestamp(t) == t + UtcOffset(t)

\* datetime(now.year, now.month, now.day), with now = datetime.now()
TodayStart == FromTimestamp(now) - (FromTimestamp(now) % TICKS_PER_DAY)

\* A week bucket that starts a week after today_start
WeekAhead == TodayStart + WEEK_DAYS * TICKS_PER_DAY

WeekAgo == TodayStart - WEEK_DAYS * TICKS_PER_DAY

MonthAgo == TodayStart - MONTH_DAYS * TICKS_PER_DAY

\* a hold time scaled by the size of the position
HoldTimeBySize(p) == (FromTimestamp(p[2]) - FromTimestamp(p[1])) * p[3]

\* (close_dt - open_dt) of one completed position, in ticks
HoldTime(p) == FromTimestamp(p[2]) - FromTimestamp(p[1])

\* the hold times of the positions closed at or after `since`, lines 871-886
HoldTimesSince(positions, since) ==
    LET kept == SelectSeq(positions, LAMBDA p : FromTimestamp(p[2]) >= since)
    IN  [k \in 1..Len(kept) |-> HoldTime(kept[k])]

AllHoldTimes(positions) == [k \in 1..Len(positions) |-> HoldTime(positions[k])]

RECURSIVE SumSeq(_)
SumSeq(s) == IF s = <<>> THEN 0 ELSE SumSeq(Front(s)) + Last(s)

\* A number of days as the fraction num / den
Zero == [num |-> 0, den |-> 1]

\* sum(h) / len(h) without the test for an empty list
AverageUnguarded(h) == [num |-> SumSeq(h), den |-> Len(h) * TICKS_PER_DAY]

\* sum(h) / len(h) if h else 0, with h in days (ticks / TICKS_PER_DAY)
Average(h) ==
    IF h = <<>> THEN Zero ELSE [num |-> SumSeq(h), den |-> Len(h) * TICKS_PER_DAY]

\* the dict returned at lines 896-901
Stats(positions) ==
    [todayCount        |-> Average(HoldTimesSince(positions, TodayStart)),
     last7DaysAverage  |-> Average(HoldTimesSince(positions, WeekAgo)),
     last30DaysAverage |-> Average(HoldTimesSince(positions, MonthAgo)),
     allTimeAverage    |-> Average(AllHoldTimes(positions))]

\* the dict returned at lines 732-737
EmptyStats ==
    [todayCount |-> Zero, last7DaysAverage |-> Zero,
     last30DaysAverage |-> Zero, allTimeAverage |-> Zero]

-----------------------------------------------------------------------------
(* The call *)

Tag(c, side, lot, by) ==
    [coin |-> c, side |-> side, lot |-> lot, ev |-> idx, by |-> by]

\* A sort of the caller's list in place, fills.sort(key=...)
FillsAfterSort(f) == SortedByTime(f)

\* the caller's list after line 757: sorted() builds a new list and leaves
\* its argument as it was
FillsAfterSorted(f) == f

\* lines 731-757: the empty-input return, the fresh queues, the sort
Call ==
    /\ pc = "start"
    /\ IF fills = <<>>
       THEN /\ result' = EmptyStats
            /\ pc' = "done"
            /\ UNCHANGED sorted_fills
       ELSE /\ sorted_fills' = SortedByTime(fills)
            /\ pc' = "for"
            /\ UNCHANGED result
    /\ fills' = FillsAfterSorted(fills)
    /\ UNCHANGED <<now, tz_offset, parked, idx, coin, timestamp, size,
                   remaining_size, long_open_positions, short_open_positions,
                   completed_positions, error, position_tags,
                   long_before, short_before, positions_before>>

\* the exception `e` leaves the call
Raise(e) ==
    /\ pc' = "raised"
    /\ error' = e
    /\ UNCHANGED <<coin, timestamp, size, remaining_size, long_open_positions,
                   short_open_positions, completed_positions, position_tags>>

\* `continue`, and the fall through the if/elif chain
Continue ==
    /\ pc' = "for"
    /\ UNCHANGED <<remaining_size, long_open_positions, short_open_positions,
                   completed_positions, error, position_tags>>

\* An append that reaches the long queue of every coin
PushLongAll(c, t, sz) ==
    /\ long_open_positions' =
           [c2 \in Coins |-> Append(long_open_positions[c2], <<t, sz, idx'>>)]
    /\ UNCHANGED short_open_positions

\* An append that takes off the new lot what the last Close left unmatched
PushLongNetted(c, t, sz) ==
    /\ long_open_positions' =
           [long_open_positions EXCEPT
               ![c] = Append(@, <<t, IF remaining_size < sz
                                     THEN sz - remaining_size
                                     ELSE sz, idx'>>)]
    /\ UNCHANGED short_open_positions

\* An insert at the head of the long queue
PushLongFront(c, t, sz) ==
    /\ long_open_positions' =
           [long_open_positions EXCEPT ![c] = <<<<t, sz, idx'>>>> \o @]
    /\ UNCHANGED short_open_positions

\* long_open_positions[coin].append([timestamp, size])
PushLong(c, t, sz) ==
    /\ long_open_positions' =
           [long_open_positions EXCEPT ![c] = Append(@, <<t, sz, idx'>>)]
    /\ UNCHANGED short_open_positions

\* An append that puts the lot in the short queue twice
PushShortTwice(c, t, sz) ==
    /\ short_open_positions' =
           [short_open_positions EXCEPT
               ![c] = Append(Append(@, <<t, sz, idx'>>), <<t, sz, idx'>>)]
    /\ UNCHANGED long_open_positions

\* short_open_positions[coin].append([timestamp, size])
PushShort(c, t, sz) ==
    /\ short_open_positions' =
           [short_open_positions EXCEPT ![c] = Append(@, <<t, sz, idx'>>)]
    /\ UNCHANGED long_open_positions

\* one iteration of the for loop up to its branch, lines 763-813, 831, 848, 857
ForFill ==
    /\ pc = "for"
    /\ idx < Len(sorted_fills)
    /\ idx' = idx + 1
    /\ UNCHANGED <<fills, now, tz_offset, parked, sorted_fills, result>>
    /\ long_before' = long_open_positions
    /\ short_before' = short_open_positions
    /\ positions_before' = Len(completed_positions)
    /\ LET fill == sorted_fills[idx + 1]
       IN  IF fill.dir.k = "none"
           THEN Raise("AttributeError")
           ELSE IF FloatError(fill.sz) # ""
           THEN Raise(FloatError(fill.sz))
           ELSE LET direction == Strip(fill.dir.s)
                    sz == Abs(FloatValue(fill.sz))
                IN  \E branch \in {Branch(direction)} :
                    /\ coin' = fill.coin
                    /\ timestamp' = fill.time
                    /\ size' = sz
                    /\ IF fill.coin = "" \/ fill.time = 0 \/ sz = 0
                       THEN Continue
                       ELSE CASE branch \in {"buy", "open_long"} ->
                                   /\ PushLong(fill.coin, fill.time, sz)
                                   /\ pc' = "for"
                                   /\ UNCHANGED <<remaining_size, completed_positions,
                                                  error, position_tags>>
                              [] branch = "open_short" ->
                                   /\ PushShort(fill.coin, fill.time, sz)
                                   /\ pc' = "for"
                                   /\ UNCHANGED <<remaining_size, completed_positions,
                                                  error, position_tags>>
                              [] branch \in {"sell", "close_long", "close_short"} ->
                                   /\ remaining_size' = sz
                                   /\ pc' = branch
                                   /\ UNCHANGED <<long_open_positions,
                                                  short_open_positions, completed_positions,
                                                  error, position_tags>>
                              [] branch \in {"short_to_long", "long_to_short"} ->
                                   /\ pc' = branch
                                   /\ UNCHANGED <<remaining_size, long_open_positions,
                                                  short_open_positions, completed_positions,
                                                  error, position_tags>>
                              [] OTHER -> Continue

\* the matching loop of a long close on the queue of `coin`, entered at `at`
MatchLong(at) ==
    /\ pc = at
    /\ IF MatchCond(long_open_positions[coin], remaining_size)
       THEN LET r == MatchBody(long_open_positions[coin], remaining_size, timestamp)
            IN  /\ completed_positions' = Append(completed_positions, r.pos)
                /\ position_tags' = Append(position_tags,
                                           Tag(coin, "long", r.lot, "close"))
                /\ remaining_size' = r.rem
                /\ long_open_positions' = [long_open_positions EXCEPT ![coin] = r.q]
                /\ pc' = pc
       ELSE /\ pc' = "for"
            /\ UNCHANGED <<completed_positions, position_tags, remaining_size,
                           long_open_positions>>
    /\ UNCHANGED <<fills, now, tz_offset, parked, sorted_fills, idx, coin, timestamp, size,
                   short_open_positions, result, error,
                   long_before, short_before, positions_before>>

\* the loop of the spot Sell branch, lines 789-801
SellLoop == MatchLong("sell")

\* the loop of the close-long branch, lines 815-827
CloseLongLoop == MatchLong("close_long")

\* A close-short loop that matches against the long queue
CloseShortOnLongs == MatchLong("close_short")

\* the loop of the close-short branch, lines 833-845
CloseShortLoop ==
    /\ pc = "close_short"
    /\ IF MatchCond(short_open_positions[coin], remaining_size)
       THEN LET r == MatchBody(short_open_positions[coin], remaining_size, timestamp)
            IN  /\ completed_positions' = Append(completed_positions, r.pos)
                /\ position_tags' = Append(position_tags,
                                           Tag(coin, "short", r.lot, "close"))
                /\ remaining_size' = r.rem
                /\ short_open_positions' = [short_open_positions EXCEPT ![coin] = r.q]
                /\ pc' = pc
       ELSE /\ pc' = "for"
            /\ UNCHANGED <<completed_positions, position_tags, remaining_size,
                           short_open_positions>>
    /\ UNCHANGED <<fills, now, tz_offset, parked, sorted_fills, idx, coin, timestamp, size,
                   long_open_positions, result, error,
                   long_before, short_before, positions_before>>

\* the flip from short to long, lines 850-854: drain the shorts, open a long
ShortToLongLoop ==
    /\ pc = "short_to_long"
    /\ IF short_open_positions[coin] # <<>>
       THEN LET r == DrainBody(short_open_positions[coin], timestamp)
            IN  /\ completed_positions' = Append(completed_positions, r.pos)
                /\ position_tags' = Append(position_tags,
                                           Tag(coin, "short", r.lot, "flip"))
                /\ short_open_positions' = [short_open_positions EXCEPT ![coin] = r.q]
                /\ pc' = pc
                /\ UNCHANGED long_open_positions
       ELSE /\ long_open_positions' =
                   [long_open_positions EXCEPT ![coin] = Append(@, <<timestamp, size, idx>>)]
            /\ pc' = "for"
            /\ UNCHANGED <<completed_positions, position_tags, short_open_positions>>
    /\ UNCHANGED <<fills, now, tz_offset, parked, sorted_fills, idx, coin, timestamp, size,
                   remaining_size, result, error,
                   long_before, short_before, positions_before>>

\* A flip from long to short that nets: it drains the longs and then starts
\* the short side afresh with its own lot
LongToShortNetting ==
    /\ pc = "long_to_short"
    /\ IF long_open_positions[coin] # <<>>
       THEN LET r == DrainBody(long_open_positions[coin], timestamp)
            IN  /\ completed_positions' = Append(completed_positions, r.pos)
                /\ position_tags' = Append(position_tags,
                                           Tag(coin, "long", r.lot, "flip"))
                /\ long_open_positions' = [long_open_positions EXCEPT ![coin] = r.q]
                /\ pc' = pc
                /\ UNCHANGED short_open_positions
       ELSE /\ short_open_positions' =
                   [short_open_positions EXCEPT ![coin] = <<<<timestamp, size, idx>>>>]
            /\ pc' = "for"
            /\ UNCHANGED <<completed_positions, position_tags, long_open_positions>>
    /\ UNCHANGED <<fills, now, tz_offset, parked, sorted_fills, idx, coin, timestamp, size,
                   remaining_size, result, error,
                   long_before, short_before, positions_before>>

\* the flip from long to short, lines 859-863: drain the longs, open a short
LongToShortLoop ==
    /\ pc = "long_to_short"
    /\ IF long_open_positions[coin] # <<>>
       THEN LET r == DrainBody(long_open_positions[coin], timestamp)
            IN  /\ completed_positions' = Append(completed_positions, r.pos)
                /\ position_tags' = Append(position_tags,
                                           Tag(coin, "long", r.lot, "flip"))
                /\ long_open_positions' = [long_open_positions EXCEPT ![coin] = r.q]
                /\ pc' = pc
                /\ UNCHANGED short_open_positions
       ELSE /\ short_open_positions' =
                   [short_open_positions EXCEPT ![coin] = Append(@, <<timestamp, size, idx>>)]
            /\ pc' = "for"
            /\ UNCHANGED <<completed_positions, position_tags, long_open_positions>>
    /\ UNCHANGED <<fills, now, tz_offset, parked, sorted_fills, idx, coin, timestamp, size,
                   remaining_size, result, error,
                   long_before, short_before, positions_before>>

\* the end of the for loop: lines 865-901
Return ==
    /\ pc = "for"
    /\ idx = Len(sorted_fills)
    /\ result' = Stats(completed_positions)
    /\ pc' = "done"
    /\ UNCHANGED <<fills, now, tz_offset, parked, sorted_fills, idx, coin, timestamp, size,
                   remaining_size, long_open_positions, short_open_positions,
                   completed_positions, error, position_tags,
                   long_before, short_before, positions_before>>

Next ==
    \/ Call
    \/ ForFill
    \/ SellLoop
    \/ CloseLongLoop
    \/ CloseShortLoop
    \/ ShortToLongLoop
    \/ LongToShortLoop
    \/ Return

-----------------------------------------------------------------------------
(* Inputs *)

Fill(c, d, t, sz) == [coin |-> c, dir |-> d, time |-> t, sz |-> sz]

OpenLong == Str(<<"O","p","e","n"," ","L","o","n","g">>)

OpenShort == Str(<<"O","p","e","n"," ","S","h","o","r","t">>)

CloseLong == Str(<<"C","l","o","s","e"," ","L","o","n","g">>)

CloseShort == Str(<<"C","l","o","s","e"," ","S","h","o","r","t">>)

LongToShort == Str(<<"L","o","n","g"," ",">"," ","S","h","o","r","t">>)

ShortToLong == Str(<<"S","h","o","r","t"," ",">"," ","L","o","n","g">>)

Buy == Str(<<"B","u","y">>)

Sell == Str(<<"S","e","l","l">>)

PerpLabels == {OpenLong, OpenShort, CloseLong, CloseShort, LongToShort, ShortToLong}

\* two sizes at or below EPS, the least size above it, and a larger one
Sizes == {1, EPS, EPS + 1, MaxSize}

\* day k, in ticks
Day(k) == k * TICKS_PER_DAY

\* The three scenarios of src/test_hold_time_fix.py (create_test_fills), with
\* base_time at day 1 and the sizes ('1.0', '2.0', ...) scaled by ten
Scenario1 ==
    << Fill("BTC", OpenLong, Day(1), Str(<<"1","0">>)),
       Fill("BTC", OpenShort, Day(2), Str(<<"2","0">>)),
       Fill("BTC", CloseShort, Day(3), Str(<<"2","0">>)),
       Fill("BTC", CloseLong, Day(6), Str(<<"1","0">>)) >>

Scenario2 ==
    << Fill("ETH", OpenLong, Day(1), Str(<<"1","0","0">>)),
       Fill("ETH", CloseLong, Day(3), Str(<<"5","0">>)),
       Fill("ETH", CloseLong, Day(5), Str(<<"5","0">>)) >>

Scenario3 ==
    << Fill("ETH", OpenLong, Day(1), Str(<<"1","0","0","0">>)),
       Fill("ETH", LongToShort, Day(4), Str(<<"1","5","0","0">>)),
       Fill("ETH", CloseShort, Day(6), Str(<<"1","5","0","0">>)) >>

\* spot fills: a buy sold in two parts, the second larger than what is left
ScenarioSpot ==
    << Fill("BTC", Buy, Day(1), Num(8)),
       Fill("BTC", Sell, Day(2), Num(5)),
       Fill("BTC", Sell, Day(3), Num(5)) >>

\* a flip from short to long over two short lots
ScenarioShortToLong ==
    << Fill("BTC", OpenShort, Day(1), Num(4)),
       Fill("BTC", OpenShort, Day(2), Num(5)),
       Fill("BTC", ShortToLong, Day(3), Num(3)),
       Fill("BTC", CloseLong, Day(4), Num(3)) >>

\* the specification's example: FIFO order
ScenarioFifo ==
    << Fill("BTC", OpenLong, 100, Num(5)),
       Fill("BTC", OpenLong, 200, Num(5)),
       Fill("BTC", CloseLong, 300, Num(5)) >>

\* the specification's example: partial close, with the open at tick 1 and not 0
ScenarioPartial ==
    << Fill("BTC", OpenLong, 1, Num(10)),
       Fill("BTC", CloseLong, 2, Num(4)),
       Fill("BTC", CloseLong, 3, Num(6)) >>

\* the specification's example: partial close, as written: the open at timestamp 0
ScenarioPartialAtZero ==
    << Fill("BTC", OpenLong, 0, Num(10)),
       Fill("BTC", CloseLong, 1, Num(4)),
       Fill("BTC", CloseLong, 2, Num(6)) >>

\* the specification's example: long and short on one coin, as written: from t = 0
Scenario1AtZero ==
    << Fill("BTC", OpenLong, 0, Num(5)),
       Fill("BTC", OpenShort, Day(1), Num(2)),
       Fill("BTC", CloseShort, Day(2), Num(2)),
       Fill("BTC", CloseLong, Day(5), Num(5)) >>

\* the specification's example: flip drains fully, with the open at tick 1 and not 0
ScenarioFlip ==
    << Fill("BTC", OpenLong, 1, Num(5)),
       Fill("BTC", LongToShort, 2, Num(8)),
       Fill("BTC", CloseShort, 3, Num(8)) >>

Scenarios ==
    {Scenario1, Scenario1AtZero, Scenario2, Scenario3, ScenarioSpot,
     ScenarioShortToLong,
     ScenarioFifo, ScenarioPartial, ScenarioPartialAtZero, ScenarioFlip}

\* every list of n perpetual fills of one coin that starts by opening a lot,
\* fill k at tick k
MatchInputs(n) ==
    { [k \in 1..n |-> Fill("BTC", f[k][1], k, Num(f[k][2]))] :
      f \in { g \in [1..n -> PerpLabels \X Sizes] : g[1][1] \in {OpenLong, OpenShort} } }

NowDefault == Day(6) + 5

Started(inputs, nows, offsets) ==
    /\ fills \in inputs
    /\ now \in nows
    /\ tz_offset \in offsets
    /\ pc = "start"
    /\ sorted_fills = <<>>
    /\ idx = 0
    /\ coin = ""
    /\ timestamp = 0
    /\ size = 0
    /\ remaining_size = 0
    /\ long_open_positions = EmptyBook
    /\ short_open_positions = EmptyBook
    /\ completed_positions = <<>>
    /\ result = EmptyStats
    /\ error = ""
    /\ position_tags = <<>>
    /\ long_before = EmptyBook
    /\ short_before = EmptyBook
    /\ positions_before = 0

\* no other call on the instance
NoRun == [pc |-> "none"]

\* one call, alone
InitWith(inputs, nows, offsets) == Started(inputs, nows, offsets) /\ parked = NoRun

Init ==
    \E n \in 0..MaxFills :
        InitWith(IF n = 0 THEN Scenarios \cup {<<>>} ELSE MatchInputs(n), {NowDefault}, {FixedZone(0)})

Spec == Init /\ [][Next]_vars

\* Fills of two coins, two to a tick, over opens, closes and a flip
IsolationLabels == {OpenLong, CloseLong, CloseShort, LongToShort}

IsolationSizes == {EPS + 1, MaxSize}

IsolationInputs(n) ==
    { [k \in 1..n |-> Fill(f[k][1], f[k][2], (k + 1) \div 2, Num(f[k][3]))] :
      f \in [1..n -> Coins \X IsolationLabels \X IsolationSizes] }

InitIsolation ==
    \E n \in 0..MaxFills :
        InitWith(IF n = 0 THEN Scenarios \cup {<<>>} ELSE IsolationInputs(n),
                 {NowDefault}, {FixedZone(0)})

SpecIsolation == InitIsolation /\ [][Next]_vars

\* Records as a JSON feed may deliver them: the size as a number, as a
\* numeral, as text that is no numeral, null or missing; the direction
\* null, missing or unknown to the dispatch.  A missing 'sz' reads as 0 and a
\* missing 'dir' as '' (the defaults of fill.get on lines 765 and 767).
Unparsable == Str(<<"a","b","c">>)

UnknownLabel == Str(<<"S","e","t","t","l","e">>)

MissingLabel == Str(<<>>)

InputKinds ==
    { <<OpenLong, Num(EPS + 1)>>,
      <<OpenLong, Str(<<"3">>)>>,
      <<CloseLong, Num(EPS + 1)>>,
      <<OpenLong, Unparsable>>,
      <<CloseLong, Unparsable>>,
      <<OpenLong, None>>,
      <<OpenLong, Num(0)>>,
      <<None, Num(EPS + 1)>>,
      <<MissingLabel, Num(EPS + 1)>>,
      <<UnknownLabel, Num(EPS + 1)>> }

MalformedInputs(n) ==
    { [k \in 1..n |-> Fill("BTC", f[k][1], k, f[k][2])] :
      f \in [1..n -> InputKinds] }

InitInput ==
    \E n \in 0..MaxFills :
        InitWith(IF n = 0 THEN Scenarios \cup {<<>>} ELSE MalformedInputs(n),
                 {NowDefault}, {FixedZone(0)})

SpecInput == InitInput /\ [][Next]_vars

\* Fills that the drop rule of the specification names: an empty coin, a
\* timestamp that is zero or negative, a size of zero; and fills it keeps
DropLabels == {OpenLong, CloseLong, LongToShort}

DropShapes == {"kept", "no_coin", "time_zero", "time_negative", "size_zero"}

\* the k-th fill of an input, of the given shape
DropFill(shape, label, k) ==
    Fill(IF shape = "no_coin" THEN "" ELSE "BTC",
         label,
         CASE shape = "time_zero" -> 0
           [] shape = "time_negative" -> 0 - k
           [] OTHER -> k,
         Num(IF shape = "size_zero" THEN 0 ELSE EPS + 1))

DropInputs(n) ==
    { [k \in 1..n |-> DropFill(f[k][1], f[k][2], k)] :
      f \in [1..n -> DropShapes \X DropLabels] }

InitDrop ==
    \E n \in 0..MaxFills :
        InitWith(IF n = 0 THEN Scenarios \cup {<<>>} ELSE DropInputs(n),
                 {NowDefault}, {FixedZone(0)})

SpecDrop == InitDrop /\ [][Next]_vars

\* Fills of one coin in any order of their timestamps, ties included
OrderLabels == {OpenLong, CloseLong}

OrderSizes == {EPS + 1, MaxSize}

OrderTimes == 1..3

OrderInputs(n) ==
    { [k \in 1..n |-> Fill("BTC", f[k][1], f[k][2], Num(f[k][3]))] :
      f \in [1..n -> OrderLabels \X OrderTimes \X OrderSizes] }

InitOrder ==
    \E n \in 0..MaxFills :
        InitWith(IF n = 0 THEN Scenarios \cup {<<>>} ELSE OrderInputs(n),
                 {NowDefault}, {FixedZone(0)})

SpecOrder == InitOrder /\ [][Next]_vars

\* Direction labels in several letter cases
LowerLabel(l) == Str(StrLower(l.s))

UpperBuy == Str(<<"B","U","Y">>)

UpperSell == Str(<<"S","E","L","L">>)

UpperOpenLong == Str(<<"O","P","E","N"," ","L","O","N","G">>)

UpperCloseLong == Str(<<"C","L","O","S","E"," ","L","O","N","G">>)

CaseLabels ==
    {Buy, LowerLabel(Buy), UpperBuy, Sell, LowerLabel(Sell), UpperSell,
     OpenLong, UpperOpenLong, CloseLong, LowerLabel(CloseLong), UpperCloseLong,
     LongToShort, LowerLabel(LongToShort), LowerLabel(CloseShort)}

CaseInputs(n) ==
    { [k \in 1..n |-> Fill("BTC", f[k], k, Num(MaxSize))] :
      f \in [1..n -> CaseLabels] }

InitCase ==
    \E n \in 0..MaxFills :
        InitWith(IF n = 0 THEN Scenarios \cup {<<>>} ELSE CaseInputs(n),
                 {NowDefault}, {FixedZone(0)})

SpecCase == InitCase /\ [][Next]_vars

\* Fills whose label the dispatch knows, among fills whose label it does not
SettleLabel == Str(<<"S","e","t","t","l","e","m","e","n","t">>)

UnknownLabels == {UnknownLabel, MissingLabel, SettleLabel}

UnknownInputs(n) ==
    { [k \in 1..n |-> Fill("BTC", f[k][1], k, Num(f[k][2]))] :
      f \in [1..n -> ({OpenLong, CloseLong, CloseShort, LongToShort}
                      \cup UnknownLabels) \X {EPS + 1, MaxSize}] }

InitUnknown ==
    \E n \in 0..MaxFills :
        InitWith(IF n = 0 THEN Scenarios \cup {<<>>} ELSE UnknownInputs(n),
                 {NowDefault}, {FixedZone(0)})

SpecUnknown == InitUnknown /\ [][Next]_vars

\* Runs under several clocks and zones: one lot closed in parts at times on
\* both sides of each bucket boundary, in zones with and without a change of
\* offset between the times
ClockNow == Day(40)

ClockNows == {ClockNow, ClockNow + 5, ClockNow + 23}

ZoneChange == Day(38) + 7

\* zones of one offset, zones that put the clock forward or back by an hour
\* at ZoneChange, and one that puts it back by two
Zones ==
    {FixedZone(0), FixedZone(8), FixedZone(0 - 5),
     [base |-> 0 - 5, at |-> ZoneChange, shift |-> 1],
     [base |-> 0 - 4, at |-> ZoneChange, shift |-> 0 - 1],
     [base |-> 2, at |-> ZoneChange, shift |-> 0 - 2]}

OpenTimes == {Day(2) + 3, Day(38) + 6}

CloseTimes ==
    {Day(9) + 23, Day(10) + 4, Day(33) - 1, Day(33) + 5,
     Day(38) + 7, Day(39) + 23, ClockNow + 1}

\* one lot, closed in parts of sizes (EPS + 1), 2 * (EPS + 1), ... that use it up
ClockInputs(n) ==
    { [k \in 1..n |->
          IF k = 1
          THEN Fill("BTC", OpenLong, a,
                    Num((EPS + 1) * (IF n = 1 THEN 1 ELSE (n * (n - 1)) \div 2)))
          ELSE Fill("BTC", CloseLong, f[k], Num((EPS + 1) * (k - 1)))] :
      a \in OpenTimes, f \in [2..n -> CloseTimes] }

InitClock ==
    \E n \in 0..MaxFills :
        InitWith(IF n = 0 THEN Scenarios \cup {<<>>} ELSE ClockInputs(n),
                 ClockNows, Zones)

SpecClock == InitClock /\ [][Next]_vars

\* Several calls on one calculator instance, as the batch driver's thread
\* pool makes them.  A call's state is its arguments and locals; the
\* interpreter runs one thread at a time and may switch between any two steps.
Locals ==
    [fills |-> fills, now |-> now, pc |-> pc, sorted_fills |-> sorted_fills,
     idx |-> idx, coin |-> coin, timestamp |-> timestamp, size |-> size,
     remaining_size |-> remaining_size,
     long_open_positions |-> long_open_positions,
     short_open_positions |-> short_open_positions,
     completed_positions |-> completed_positions,
     result |-> result, error |-> error, position_tags |-> position_tags,
     long_before |-> long_before, short_before |-> short_before,
     positions_before |-> positions_before]

\* the locals of a call on the input f that has not taken a step
FreshRun(f, t) ==
    [fills |-> f, now |-> t, pc |-> "start", sorted_fills |-> <<>>,
     idx |-> 0, coin |-> "", timestamp |-> 0, size |-> 0, remaining_size |-> 0,
     long_open_positions |-> EmptyBook, short_open_positions |-> EmptyBook,
     completed_positions |-> <<>>, result |-> EmptyStats, error |-> "",
     position_tags |-> <<>>, long_before |-> EmptyBook,
     short_before |-> EmptyBook, positions_before |-> 0]

\* queues and Position list kept on the instance: a call that resumes finds
\* them as the other call left them
ResumeSharing(saved) ==
    [saved EXCEPT !.long_open_positions = long_open_positions,
                  !.short_open_positions = short_open_positions,
                  !.completed_positions = completed_positions,
                  !.position_tags = position_tags]

\* what a call finds when it resumes: its own locals (lines 748-754 bind the
\* queues and the list to local names)
Resume(saved) == saved

\* the thread of the other call is scheduled
Switch ==
    /\ parked # NoRun
    /\ LET r == Resume(parked)
       IN  /\ fills' = r.fills
           /\ now' = r.now
           /\ pc' = r.pc
           /\ sorted_fills' = r.sorted_fills
           /\ idx' = r.idx
           /\ coin' = r.coin
           /\ timestamp' = r.timestamp
           /\ size' = r.size
           /\ remaining_size' = r.remaining_size
           /\ long_open_positions' = r.long_open_positions
           /\ short_open_positions' = r.short_open_positions
           /\ completed_positions' = r.completed_positions
           /\ result' = r.result
           /\ error' = r.error
           /\ position_tags' = r.position_tags
           /\ long_before' = r.long_before
           /\ short_before' = r.short_before
           /\ positions_before' = r.positions_before
    /\ parked' = Locals
    /\ UNCHANGED tz_offset

NextRuns == Next \/ Switch

\* every list of n fills of one coin over opens and closes, fill k on day k
RunInputs(n) ==
    { [k \in 1..n |->
          Fill("BTC", l[k], Day(k),
               Num(IF l[k] = OpenLong THEN MaxSize ELSE EPS + 1))] :
      l \in [1..n -> {OpenLong, CloseLong}] }

RunNows == {NowDefault, NowDefault + TICKS_PER_DAY}

InitRuns ==
    \E n \in 0..MaxFills :
        LET inputs == IF n = 0 THEN Scenarios \cup {<<>>} ELSE RunInputs(n)
        IN  /\ Started(inputs, {NowDefault}, {FixedZone(0)})
            /\ parked \in {FreshRun(f, t) : f \in inputs, t \in RunNows}

SpecRuns == InitRuns /\ [][NextRuns]_vars

\* Termination: closes larger than the queue, closes of at most epsilon and
\* flips over several lots; the thread of the call keeps being scheduled
LiveLabels == {OpenLong, CloseLong, CloseShort, LongToShort}

\* lots of size 1, closes that ask for more than the queue holds
LiveSize(l) == IF l \in {CloseLong, CloseShort} THEN MaxSize ELSE 1

LiveInputs(n) ==
    { [k \in 1..n |-> Fill("BTC", l[k], Day(k), Num(LiveSize(l[k])))] :
      l \in [1..n -> LiveLabels] }

InitLive ==
    \E n \in 0..MaxFills :
        InitWith(IF n = 0 THEN Scenarios \cup {<<>>} ELSE LiveInputs(n),
                 {NowDefault}, {FixedZone(0)})

SpecLive == InitLive /\ [][Next]_vars /\ WF_vars(Next)

\* Lots and the fills that consume them: every list of n perpetual fills of
\* one coin that starts by opening a lot, fill k on tick k, with sizes at
\* most epsilon, just above it and larger
LotSizes == {1, EPS + 1, MaxSize}

LotInputs(n) ==
    { [k \in 1..n |-> Fill("BTC", f[k][1], k, Num(f[k][2]))] :
      f \in { g \in [1..n -> PerpLabels \X LotSizes] :
                 g[1][1] \in {OpenLong, OpenShort} } }

InitLots ==
    \E n \in 0..MaxFills :
        InitWith(IF n = 0 THEN Scenarios \cup {<<>>} ELSE LotInputs(n),
                 {NowDefault}, {FixedZone(0)})

SpecLots == InitLots /\ [][Next]_vars

-----------------------------------------------------------------------------
(* What the properties read off a state *)

\* the queue of a side ("long" or "short") for coin c
Queue(side, c) ==
    IF side = "long" THEN long_open_positions[c] ELSE short_open_positions[c]

QueueBefore(side, c) == IF side = "long" THEN long_before[c] ELSE short_before[c]

-----------------------------------------------------------------------------
(* C1: strict FIFO.  Whenever a Close has emitted a Position for a lot, the  *)
(* Position carries that lot's open time and no lot pushed before it is      *)
(* still in the queue of that coin and side; and Open(100, 5), Open(200, 5), *)
(* Close(300, 5) on one side emit the single Position (100, 300, 5).         *)
C1_StrictFifo ==
    /\ \A k \in 1..Len(position_tags) :
          LET tag == position_tags[k]
              q == Queue(tag.side, tag.coin)
          IN  tag.by = "close" =>
                 /\ completed_positions[k][1] = sorted_fills[tag.lot].time
                 /\ \A j \in 1..Len(q) : q[j][3] >= tag.lot
    /\ (pc = "done" /\ fills = ScenarioFifo) =>
          completed_positions = << <<100, 300, 5>> >>

\* a Close has paired a lot while a lot pushed after it is still open
C1_Witness ==
    \E k \in 1..Len(position_tags) :
       LET tag == position_tags[k]
           q == Queue(tag.side, tag.coin)
       IN  tag.by = "close" /\ \E j \in 1..Len(q) : q[j][3] > tag.lot

\* the direction labels the inputs carry, and the branch each one takes
Labels == PerpLabels \cup {Buy, Sell}

BranchOfLabel == [l \in Labels |-> Branch(Strip(l.s))]

EventBranch(f) ==
    IF f.dir \in Labels THEN BranchOfLabel[f.dir] ELSE Branch(Strip(f.dir.s))

EventSize(f) == Abs(FloatValue(f.sz))

\* the fill reaches the dispatch: nothing is raised and line 769 keeps it
Effective(f) ==
    /\ f.dir.k # "none"
    /\ FloatError(f.sz) = ""
    /\ ~(f.coin = "" \/ f.time = 0 \/ EventSize(f) = 0)

\* what a branch does to a side
Opens(b, side) ==
    \/ side = "long" /\ b \in {"buy", "open_long", "short_to_long"}
    \/ side = "short" /\ b \in {"open_short", "long_to_short"}

Closes(b, side) ==
    \/ side = "long" /\ b \in {"sell", "close_long"}
    \/ side = "short" /\ b = "close_short"

Drains(b, side) ==
    \/ side = "long" /\ b = "long_to_short"
    \/ side = "short" /\ b = "short_to_long"

Sides == {"long", "short"}

\* The ledger of coin c and a side over the first k fills in processing order:
\* the size pushed, the size the Closes asked for, the number of Closes, the
\* number of flips that drained the side, and whether every Close so far kept
\* the cumulative Close size within the cumulative size pushed before it
RECURSIVE Ledger(_, _, _)
Ledger(c, side, k) ==
    IF k = 0
    THEN [opened |-> 0, closed |-> 0, closes |-> 0, drains |-> 0, within |-> TRUE]
    ELSE LET l == Ledger(c, side, k - 1)
             f == sorted_fills[k]
         IN  IF ~Effective(f) \/ f.coin # c
             THEN l
             ELSE LET b == EventBranch(f)
                      sz == EventSize(f)
                  IN  IF Opens(b, side)
                      THEN [l EXCEPT !.opened = @ + sz]
                      ELSE IF Closes(b, side)
                      THEN [l EXCEPT !.closed = @ + sz,
                                     !.closes = @ + 1,
                                     !.within = @ /\ l.closed + sz <= l.opened]
                      ELSE IF Drains(b, side)
                      THEN [l EXCEPT !.drains = @ + 1]
                      ELSE l

\* the sum of matched_size over the first k Positions of coin c and a side
RECURSIVE Matched(_, _, _)
Matched(c, side, k) ==
    IF k = 0
    THEN 0
    ELSE Matched(c, side, k - 1)
         + (IF position_tags[k].coin = c /\ position_tags[k].side = side
            THEN completed_positions[k][3]
            ELSE 0)

\* between two fills, or after the last one
AtFillBoundary == pc \in {"for", "done"}

-----------------------------------------------------------------------------
(* C2: conservation.  For a coin and side that no flip drains and whose      *)
(* cumulative Close size never exceeds the cumulative size pushed before it  *)
(* (by opens and by flips into the side), the matched sizes of its Positions *)
(* never exceed the sum of its Close sizes and fall short of it by at most   *)
(* the 1e-9 residual each Close may drop.                                    *)
C2_Conservation ==
    AtFillBoundary =>
       \A c \in Coins, side \in Sides :
          LET l == Ledger(c, side, idx)
              m == Matched(c, side, Len(completed_positions))
          IN  (l.within /\ l.drains = 0) =>
                 /\ m <= l.closed
                 /\ l.closed - m <= EPS * l.closes

\* two Closes on a side fed by a flip or an open, every unit of them matched
C2_Witness ==
    /\ pc = "done"
    /\ \E c \in Coins, side \in Sides :
          LET l == Ledger(c, side, idx)
          IN  /\ l.within /\ l.drains = 0 /\ l.closes >= 2
              /\ Matched(c, side, Len(completed_positions)) = l.closed

\* the claim as stated: with the cumulative Close size within the cumulative
\* size opened, flips or not, the matched sizes sum to the Close sizes
C2_Original ==
    pc = "done" =>
       \A c \in Coins, side \in Sides :
          LET l == Ledger(c, side, idx)
          IN  l.within => Matched(c, side, Len(completed_positions)) = l.closed

-----------------------------------------------------------------------------
\* the sum of the sizes of the first k fills of f
RECURSIVE SizeSum(_, _)
SizeSum(f, k) == IF k = 0 THEN 0 ELSE SizeSum(f, k - 1) + EventSize(f[k])

\* the input is the Open of one lot followed by Closes on its coin and side
\* whose sizes sum to the size of the lot
ClosedInParts(side) ==
    /\ Len(fills) >= 2
    /\ sorted_fills = fills
    /\ \A j \in 1..Len(fills) : Effective(fills[j]) /\ fills[j].coin = fills[1].coin
    /\ EventBranch(fills[1]) \in
          (IF side = "long" THEN {"buy", "open_long"} ELSE {"open_short"})
    /\ \A j \in 2..Len(fills) : Closes(EventBranch(fills[j]), side)
    /\ SizeSum(Tail(fills), Len(fills) - 1) = EventSize(fills[1])

\* one Position per Close, each with the open time of the lot and the time
\* and size of its Close
OnePositionPerClose ==
    completed_positions =
       [j \in 1..(Len(fills) - 1) |->
           <<fills[1].time, fills[j + 1].time, EventSize(fills[j + 1])>>]

-----------------------------------------------------------------------------
\* the fill just processed reached the dispatch and took branch b
JustDid(b) ==
    /\ AtFillBoundary
    /\ idx >= 1
    /\ Effective(sorted_fills[idx])
    /\ EventBranch(sorted_fills[idx]) = b

\* the Positions the fill just processed has emitted
NewPositions ==
    SubSeq(completed_positions, positions_before + 1, Len(completed_positions))

Other(side) == IF side = "long" THEN "short" ELSE "long"

Flips == {"long_to_short", "short_to_long"}

DrainedSide(b) == IF b = "long_to_short" THEN "long" ELSE "short"

\* a flip has emitted one Position per lot that was in the queue it drains,
\* with the lot's remaining size and the flip's time, has left that queue
\* empty and has appended one lot of its own size and time to the other side
FlipDrains ==
    \A b \in Flips :
       JustDid(b) =>
          LET f == sorted_fills[idx]
              from == QueueBefore(DrainedSide(b), f.coin)
              to == QueueBefore(Other(DrainedSide(b)), f.coin)
          IN  /\ NewPositions =
                    [j \in 1..Len(from) |-> <<from[j][1], f.time, from[j][2]>>]
              /\ Queue(DrainedSide(b), f.coin) = <<>>
              /\ Queue(Other(DrainedSide(b)), f.coin) =
                    Append(to, <<f.time, EventSize(f), idx>>)

\* the fill just processed is a Close on `side` that directly follows a flip
\* into that side of the same coin and of the same size
CloseAfterFlip(side) ==
    /\ AtFillBoundary
    /\ idx >= 2
    /\ Effective(sorted_fills[idx])
    /\ Effective(sorted_fills[idx - 1])
    /\ Closes(EventBranch(sorted_fills[idx]), side)
    /\ Drains(EventBranch(sorted_fills[idx - 1]), Other(side))
    /\ sorted_fills[idx].coin = sorted_fills[idx - 1].coin
    /\ EventSize(sorted_fills[idx]) = EventSize(sorted_fills[idx - 1])

\* the lot of the flip was alone in its queue and is larger than 1e-9
FlipLotAlone(side) ==
    /\ Len(QueueBefore(side, sorted_fills[idx].coin)) = 1
    /\ EventSize(sorted_fills[idx - 1]) > EPS

(* C4: a flip drains fully.  A flip emits one Position per lot of the queue  *)
(* it drains, each with the lot's remaining size and the flip's time,        *)
(* whatever the flip's own size, leaves that queue empty and appends one lot *)
(* of the flip's size and time to the other side; when that side held no     *)
(* other lot and the flip's size is above 1e-9, a Close of the flip's size   *)
(* that follows on that side emits exactly the Position opened at the flip's *)
(* time.                                                                     *)
C4_FlipDrainsFully ==
    /\ FlipDrains
    /\ \A side \in Sides :
          (CloseAfterFlip(side) /\ FlipLotAlone(side)) =>
             NewPositions = << <<sorted_fills[idx - 1].time,
                                 sorted_fills[idx].time,
                                 EventSize(sorted_fills[idx])>> >>

\* a flip has drained two lots or more and the Close that follows it has
\* closed the lot the flip opened
C4_Witness ==
    /\ \E side \in Sides : CloseAfterFlip(side) /\ FlipLotAlone(side)
    /\ Len(completed_positions) >= 3

\* the claim as stated: the Close that follows a flip always yields a
\* Position for the lot the flip opened
C4_Original ==
    /\ FlipDrains
    /\ \A side \in Sides :
          CloseAfterFlip(side) =>
             \E k \in (positions_before + 1)..Len(completed_positions) :
                /\ position_tags[k].lot = idx - 1
                /\ completed_positions[k][1] = sorted_fills[idx - 1].time

-----------------------------------------------------------------------------
(* The engine as a function of the list of fills: lines 757-863 replayed on  *)
(* one pair of queues, for inputs that raise nothing.                        *)

RECURSIVE MatchAll(_, _, _, _)
MatchAll(q, rem, ts, pos) ==
    IF MatchCond(q, rem)
    THEN LET r == MatchBody(q, rem, ts)
         IN  MatchAll(r.q, r.rem, ts, Append(pos, r.pos))
    ELSE [q |-> q, pos |-> pos]

RECURSIVE DrainAll(_, _, _)
DrainAll(q, ts, pos) ==
    IF q # <<>>
    THEN LET r == DrainBody(q, ts)
         IN  DrainAll(r.q, ts, Append(pos, r.pos))
    ELSE pos

ReplayFill(s, f) ==
    IF ~Effective(f)
    THEN s
    ELSE LET b == EventBranch(f)
             lot == <<f.time, EventSize(f), 0>>
         IN  CASE b \in {"buy", "open_long"} ->
                    [s EXCEPT !.long = Append(@, lot)]
               [] b = "open_short" ->
                    [s EXCEPT !.short = Append(@, lot)]
               [] b \in {"sell", "close_long"} ->
                    LET r == MatchAll(s.long, EventSize(f), f.time, s.pos)
                    IN  [s EXCEPT !.long = r.q, !.pos = r.pos]
               [] b = "close_short" ->
                    LET r == MatchAll(s.short, EventSize(f), f.time, s.pos)
                    IN  [s EXCEPT !.short = r.q, !.pos = r.pos]
               [] b = "short_to_long" ->
                    [long |-> Append(s.long, lot), short |-> <<>>,
                     pos |-> DrainAll(s.short, f.time, s.pos)]
               [] b = "long_to_short" ->
                    [long |-> <<>>, short |-> Append(s.short, lot),
                     pos |-> DrainAll(s.long, f.time, s.pos)]
               [] OTHER -> s

RECURSIVE Replay(_, _)
Replay(f, k) ==
    IF k = 0
    THEN [long |-> <<>>, short |-> <<>>, pos |-> <<>>]
    ELSE ReplayFill(Replay(f, k - 1), f[k])

\* the fills of coin c, in input order
FillsOf(c) == SelectSeq(fills, LAMBDA f : f.coin = c)

\* the Positions of coin c among the first k, in the order emitted
RECURSIVE PositionsOf(_, _)
PositionsOf(c, k) ==
    IF k = 0
    THEN <<>>
    ELSE IF position_tags[k].coin = c
         THEN Append(PositionsOf(c, k - 1), completed_positions[k])
         ELSE PositionsOf(c, k - 1)

(* C5: symbol isolation.  While a fill of one coin is processed the queues   *)
(* of every other coin stay as they were before it; every Position pairs a   *)
(* lot and a closing fill of the same coin, with their times; and at the end *)
(* the Positions of a coin are those the engine emits on that coin's fills   *)
(* alone.                                                                    *)
C5_SymbolIsolation ==
    /\ \A c \in Coins :
          c # coin =>
             /\ long_open_positions[c] = long_before[c]
             /\ short_open_positions[c] = short_before[c]
    /\ \A k \in 1..Len(position_tags) :
          LET tag == position_tags[k]
          IN  /\ sorted_fills[tag.lot].coin = tag.coin
              /\ sorted_fills[tag.ev].coin = tag.coin
              /\ completed_positions[k][1] = sorted_fills[tag.lot].time
              /\ completed_positions[k][2] = sorted_fills[tag.ev].time
    /\ pc = "done" =>
          \A c \in Coins :
             LET alone == SortedByTime(FillsOf(c))
             IN  PositionsOf(c, Len(completed_positions)) =
                    Replay(alone, Len(alone)).pos

\* fills of two coins at one tick, a Position of one coin, and a lot of the
\* other coin still open at the end
C5_Witness ==
    /\ pc = "done"
    /\ \E c, d \in Coins :
          /\ c # d
          /\ PositionsOf(c, Len(completed_positions)) # <<>>
          /\ long_open_positions[d] # <<>>
    /\ \E j, k \in 1..Len(fills) :
          /\ fills[j].time = fills[k].time
          /\ fills[j].coin # fills[k].coin

-----------------------------------------------------------------------------
\* the side a close branch works on
ClosedSide(b) == IF b = "close_short" THEN "short" ELSE "long"

\* during and after a close of one side, the queues of the other side are as
\* they were before it and every Position it has emitted is for a lot that
\* was pushed on its own side
SideIndependent ==
    \A b \in {"close_long", "close_short"} :
       (pc = b \/ JustDid(b)) =>
          /\ \A c \in Coins :
                Queue(Other(ClosedSide(b)), c) = QueueBefore(Other(ClosedSide(b)), c)
          /\ \A k \in (positions_before + 1)..Len(completed_positions) :
                /\ position_tags[k].side = ClosedSide(b)
                /\ Opens(EventBranch(sorted_fills[position_tags[k].lot]),
                         ClosedSide(b))

\* an average of exactly d days
IsDays(avg, d) == avg.num = d * avg.den

-----------------------------------------------------------------------------
\* the total remaining size of a queue
RECURSIVE TotalSize(_)
TotalSize(q) == IF q = <<>> THEN 0 ELSE q[1][2] + TotalSize(Tail(q))

CloseBranches == {"sell", "close_long", "close_short"}

\* the queue the Close just processed works on, as it was before the Close
ClosedQueueBefore ==
    QueueBefore(ClosedSide(EventBranch(sorted_fills[idx])), sorted_fills[idx].coin)

\* the Close just processed has emitted one Position per lot that was in its
\* queue, each with the lot's remaining size, and has left the queue empty
ClosedEveryLot ==
    /\ NewPositions =
          [j \in 1..Len(ClosedQueueBefore) |->
              <<ClosedQueueBefore[j][1], sorted_fills[idx].time,
                ClosedQueueBefore[j][2]>>]
    /\ Queue(ClosedSide(EventBranch(sorted_fills[idx])), sorted_fills[idx].coin) = <<>>
    /\ error = ""

-----------------------------------------------------------------------------
\* the fill has a size that float() does not read
SizeUnparsable(f) == FloatError(f.sz) # ""

(* C8: malformed input.  No run raises: for every input, records with an     *)
(* unparsable, null or missing size or a null, missing or unknown direction  *)
(* included, the run returns its four averages, and the Positions are those  *)
(* of the input without the fills whose size cannot be parsed.               *)
C8_NoException ==
    /\ pc # "raised"
    /\ pc = "done" =>
          LET kept == SelectSeq(sorted_fills, LAMBDA f : ~SizeUnparsable(f))
          IN  /\ completed_positions = Replay(kept, Len(kept)).pos
              /\ result = Stats(completed_positions)

\* the timestamp, coin or size of the fill is one the drop rule names
Droppable(f) ==
    \/ f.coin = ""
    \/ f.time <= 0
    \/ (FloatError(f.sz) = "" /\ EventSize(f) = 0)

(* C9: drop rule.  From the moment a fill with an empty coin, a timestamp    *)
(* that is zero or negative, or a size of zero is taken up, and until the    *)
(* next fill is, every queue and the list of Positions are as they were      *)
(* before it, whatever its direction label.                                  *)
C9_DropRule ==
    (idx >= 1 /\ pc # "raised" /\ Droppable(sorted_fills[idx])) =>
       /\ long_open_positions = long_before
       /\ short_open_positions = short_before
       /\ Len(completed_positions) = positions_before

-----------------------------------------------------------------------------
\* the least timestamp among the fills of a non-empty list
MinTime(f) ==
    CHOOSE t \in {f[k].time : k \in 1..Len(f)} :
       \A k \in 1..Len(f) : t <= f[k].time

\* the fills in ascending order of timestamp, those of one timestamp in
\* their input order
RECURSIVE StableByTime(_)
StableByTime(f) ==
    IF f = <<>>
    THEN <<>>
    ELSE SelectSeq(f, LAMBDA x : x.time = MinTime(f))
         \o StableByTime(SelectSeq(f, LAMBDA x : x.time # MinTime(f)))

\* the lots of a queue were pushed by fills taken up in queue order, and
\* carry the timestamps of those fills
PushedInOrder(q) ==
    /\ \A j \in 1..Len(q) : q[j][3] \in 1..idx /\ q[j][1] = sorted_fills[q[j][3]].time
    /\ \A j \in 1..(Len(q) - 1) : q[j][3] < q[j + 1][3]

(* C10: processing order.  Whatever the order of the input, the fills are    *)
(* taken up in ascending order of timestamp, fills of equal timestamp in     *)
(* their input order: the list the loop walks is that stable order of the    *)
(* input, the fill in hand is its idx-th element, lots and Positions appear  *)
(* in that order, and the Positions at the end are those of the engine run   *)
(* on the input in that order.                                               *)
C10_ProcessingOrder ==
    /\ pc # "start" => sorted_fills = StableByTime(fills)
    /\ (idx >= 1 /\ pc # "raised") =>
          /\ coin = sorted_fills[idx].coin
          /\ timestamp = sorted_fills[idx].time
    /\ \A c \in Coins :
          PushedInOrder(long_open_positions[c]) /\ PushedInOrder(short_open_positions[c])
    /\ \A k \in 1..Len(position_tags) :
          /\ position_tags[k].ev \in 1..idx
          /\ completed_positions[k][2] = sorted_fills[position_tags[k].ev].time
          /\ k > 1 => position_tags[k - 1].ev <= position_tags[k].ev
    /\ pc = "done" =>
          completed_positions = Replay(StableByTime(fills), Len(fills)).pos

\* an input that is out of order and has two fills at one timestamp has
\* been run to the end and has produced a Position
C10_Witness ==
    /\ pc = "done"
    /\ completed_positions # <<>>
    /\ \E j, k \in 1..Len(fills) : j < k /\ fills[j].time > fills[k].time
    /\ \E j, k \in 1..Len(fills) : j < k /\ fills[j].time = fills[k].time

-----------------------------------------------------------------------------
\* a queue without the history component of its lots
Lots(q) == [j \in 1..Len(q) |-> <<q[j][1], q[j][2]>>]

\* a label in the letter case the dispatch spells it in: Buy and Sell for
\* the spot labels, lower case for the others
CanonicalLabel(l) ==
    IF StrLower(Strip(l.s)) = StrLower(S_Buy) THEN Buy
    ELSE IF StrLower(Strip(l.s)) = StrLower(S_Sell) THEN Sell
    ELSE LowerLabel(l)

\* the fills with their direction labels in that letter case
Canonical(f) ==
    [k \in 1..Len(f) |->
        IF f[k].dir.k = "str" THEN [f[k] EXCEPT !.dir = CanonicalLabel(@)] ELSE f[k]]

(* C11: case-insensitive classification.  A run ends with the Positions and  *)
(* the queues of the run on the same fills with every direction label        *)
(* respelled in one letter case (a label that reads buy or sell as Buy or    *)
(* Sell, which open and close a long), so that two inputs that differ only   *)
(* in the letter case of their labels end alike.                             *)
C11_CaseInsensitive ==
    pc = "done" =>
       LET r == Replay(Canonical(sorted_fills), Len(sorted_fills))
       IN  /\ completed_positions = r.pos
           /\ Lots(long_open_positions["BTC"]) = Lots(r.long)
           /\ Lots(short_open_positions["BTC"]) = Lots(r.short)

-----------------------------------------------------------------------------
\* the label, read without regard to letter case, is in none of the classes
\* open, close, flip and spot
UnclassifiedLabel(l) ==
    LET s == StrLower(Strip(l.s))
    IN  /\ s # StrLower(S_Buy)
        /\ s # StrLower(S_Sell)
        /\ ~(Contains(S_open_long, s) /\ ~Contains(S_short, s))
        /\ ~(Contains(S_open_short, s) /\ ~Contains(S_long, s))
        /\ ~(Contains(S_close_long, s) /\ ~Contains(S_short, s))
        /\ ~(Contains(S_close_short, s) /\ ~Contains(S_long, s))
        /\ ~Contains(S_short_gt_long, s)
        /\ ~Contains(S_shortgtlong, s)
        /\ ~Contains(S_long_gt_short, s)
        /\ ~Contains(S_longgtshort, s)

Unclassified(f) == f.dir.k = "str" /\ UnclassifiedLabel(f.dir)

\* the list f without its k-th element
Remove(f, k) == SubSeq(f, 1, k - 1) \o SubSeq(f, k + 1, Len(f))

(* C12: an unclassified fill is a no-op.  Once a fill whose label is in no   *)
(* class has been taken up, every queue and the list of Positions are as     *)
(* they were before it; and at the end the Positions and the four averages   *)
(* are those of the run on the input without that fill.                      *)
C12_UnclassifiedNoOp ==
    /\ (idx >= 1 /\ pc # "raised" /\ Unclassified(sorted_fills[idx])) =>
          /\ long_open_positions = long_before
          /\ short_open_positions = short_before
          /\ Len(completed_positions) = positions_before
    /\ pc = "done" =>
          \A k \in 1..Len(sorted_fills) :
             Unclassified(sorted_fills[k]) =>
                LET r == Replay(Remove(sorted_fills, k), Len(sorted_fills) - 1)
                IN  /\ completed_positions = r.pos
                    /\ result = Stats(r.pos)

\* an unclassified fill stood between an open and the close that paired it
C12_Witness ==
    /\ pc = "done"
    /\ completed_positions # <<>>
    /\ \E k \in 2..(Len(sorted_fills) - 1) :
          /\ Unclassified(sorted_fills[k])
          /\ Effective(sorted_fills[k])
          /\ position_tags[1].lot < k
          /\ position_tags[1].ev > k

-----------------------------------------------------------------------------
\* hold_days, as (close_time - open_time) in ticks, of the Positions whose
\* close_time is at or after a local time: midnight(now) is the local
\* midnight that began the day of `now`, and midnight(now) - d days the
\* local midnight d days earlier
HoldDaysSince(positions, since) ==
    LET kept == SelectSeq(positions, LAMBDA p : FromTimestamp(p[2]) >= since)
    IN  [k \in 1..Len(kept) |-> kept[k][2] - kept[k][1]]

HoldDays(positions) == [k \in 1..Len(positions) |-> positions[k][2] - positions[k][1]]

\* two fractions are the same number
SameNumber(a, b) == a.num * b.den = b.num * a.den

(* C13: aggregation.  Each of the four values is the mean of                 *)
(* hold_days = (close_time - open_time) / 86,400,000 over the Positions with *)
(* close_time at or after midnight(now), midnight(now) - 7 days,             *)
(* midnight(now) - 30 days, and over all Positions; an empty bucket gives 0. *)
C13_Aggregation ==
    pc = "done" =>
       /\ SameNumber(result.todayCount,
                     Average(HoldDaysSince(completed_positions, TodayStart)))
       /\ SameNumber(result.last7DaysAverage,
                     Average(HoldDaysSince(completed_positions,
                                           TodayStart - WEEK_DAYS * TICKS_PER_DAY)))
       /\ SameNumber(result.last30DaysAverage,
                     Average(HoldDaysSince(completed_positions,
                                           TodayStart - MONTH_DAYS * TICKS_PER_DAY)))
       /\ SameNumber(result.allTimeAverage, Average(HoldDays(completed_positions)))


\* the sizes a Position may be given in place of its own
Resizings(positions) == [1..Len(positions) -> {1, EPS + 1, 2 * MaxSize}]

\* the same pairings (open_time, close_time) with the sizes z
Resized(positions, z) ==
    [k \in 1..Len(positions) |-> <<positions[k][1], positions[k][2], z[k]>>]

EmptyBucket(since) ==
    \A k \in 1..Len(completed_positions) :
        FromTimestamp(completed_positions[k][2]) < since

\* the record r has the fields `keys`, a field is 0 when its bucket is empty,
\* and all of them are 0 for an empty input; today is the name of the first field
ResultRecord(r, keys, today) ==
    /\ DOMAIN r = keys
    /\ EmptyBucket(TodayStart) => r[today] = Zero
    /\ EmptyBucket(WeekAgo) => r.last7DaysAverage = Zero
    /\ EmptyBucket(MonthAgo) => r.last30DaysAverage = Zero
    /\ completed_positions = <<>> => r.allTimeAverage = Zero
    /\ fills = <<>> => \A key \in keys : r[key] = Zero

(* C15: every run that returns, on an empty or a non-empty input, returns a  *)
(* record with exactly the four fields todayCount, last7DaysAverage,         *)
(* last30DaysAverage and allTimeAverage; a field is 0 when its bucket is     *)
(* empty, and all four are 0 for an empty input.                             *)
C15_ResultRecord ==
    pc = "done" =>
        ResultRecord(result,
                     {"todayCount", "last7DaysAverage", "last30DaysAverage",
                      "allTimeAverage"},
                     "todayCount")

\* a run on a non-empty input returned with Positions, none of them closed today
C15_Witness ==
    /\ pc = "done"
    /\ fills # <<>>
    /\ completed_positions # <<>>
    /\ EmptyBucket(TodayStart)
    /\ ~EmptyBucket(MonthAgo)
    /\ result.todayCount = Zero
    /\ result.last30DaysAverage.num > 0

\* C15 as stated: the first field is named todayAverage
C15_Original ==
    pc = "done" =>
        ResultRecord(result,
                     {"todayAverage", "last7DaysAverage", "last30DaysAverage",
                      "allTimeAverage"},
                     "todayAverage")


\* the fills of coin c in the stable order of the whole input
OrderedFillsOf(c) == SelectSeq(StableByTime(fills), LAMBDA f : f.coin = c)

\* what any run on the input `fills` at `now` ends with
Outcome ==
    LET r == Replay(StableByTime(fills), Len(fills))
    IN  [positions |-> r.pos,
         long      |-> [c \in Coins |->
                           Replay(OrderedFillsOf(c), Len(OrderedFillsOf(c))).long],
         short     |-> [c \in Coins |->
                           Replay(OrderedFillsOf(c), Len(OrderedFillsOf(c))).short],
         averages  |-> IF fills = <<>> THEN EmptyStats ELSE Stats(r.pos)]

(* C16: determinism.  What a run ends with is a function of the input        *)
(* sequence and of now: the Positions (their order, open_time, close_time    *)
(* and matched_size), the lots left open and the four averages are those of  *)
(* the stable time order of the input, so two runs on one input and one now  *)
(* end alike, whether the input is ordered by time or not.                   *)
C16_Determinism ==
    pc = "done" =>
       /\ completed_positions = Outcome.positions
       /\ \A c \in Coins :
             /\ Lots(long_open_positions[c]) = Lots(Outcome.long[c])
             /\ Lots(short_open_positions[c]) = Lots(Outcome.short[c])
       /\ result = Outcome.averages

\* a run on an input that is not in time order, with two fills at one
\* timestamp that both take part in Positions, has returned
C16_Witness ==
    /\ pc = "done"
    /\ Len(completed_positions) >= 2
    /\ result.allTimeAverage.num > 0
    /\ \E j, k \in 1..Len(fills) : j < k /\ fills[j].time > fills[k].time
    /\ \E j, k \in 1..Len(fills) :
          /\ j < k
          /\ fills[j].time = fills[k].time
          /\ fills[j].sz # fills[k].sz
          /\ EventBranch(fills[j]) = EventBranch(fills[k])


(* C17: run isolation.  The queues and the Position list of a call are its   *)
(* own: when two calls on one instance interleave in any way, a call that    *)
(* returns has the Positions, the open lots and the averages of the same     *)
(* call executed alone, whatever the other call has pushed, matched or left  *)
(* open by then, and a call that has not started has empty queues.           *)
C17_RunIsolation ==
    /\ pc = "start" =>
          /\ long_open_positions = EmptyBook
          /\ short_open_positions = EmptyBook
          /\ completed_positions = <<>>
    /\ pc = "done" =>
          /\ completed_positions = Outcome.positions
          /\ \A c \in Coins :
                /\ Lots(long_open_positions[c]) = Lots(Outcome.long[c])
                /\ Lots(short_open_positions[c]) = Lots(Outcome.short[c])
          /\ result = Outcome.averages
    /\ \A k \in 1..Len(position_tags) :
          /\ position_tags[k].lot \in 1..Len(sorted_fills)
          /\ position_tags[k].ev \in 1..Len(sorted_fills)
          /\ completed_positions[k][1] = sorted_fills[position_tags[k].lot].time
          /\ completed_positions[k][2] = sorted_fills[position_tags[k].ev].time

\* a call has returned with a Position and an open lot while the other call,
\* on another input, is between two fills with a Position and an open lot of
\* the same coin
C17_Witness ==
    /\ pc = "done"
    /\ completed_positions # <<>>
    /\ long_open_positions["BTC"] # <<>>
    /\ parked # NoRun
    /\ parked.pc = "for"
    /\ parked.idx \in 1..(Len(parked.sorted_fills) - 1)
    /\ parked.fills # fills
    /\ parked.completed_positions # <<>>
    /\ parked.completed_positions # completed_positions
    /\ parked.long_open_positions["BTC"] # <<>>


\* a step that stays in a loop is one iteration of it: what it does to the
\* queue the loop works on and to the size left to close
LoopProgress ==
    /\ (pc \in {"sell", "close_long"} /\ pc' = pc) =>
          \/ long_open_positions'[coin] = Tail(long_open_positions[coin])
          \/ remaining_size' = 0
    /\ (pc = "close_short" /\ pc' = pc) =>
          \/ short_open_positions'[coin] = Tail(short_open_positions[coin])
          \/ remaining_size' = 0
    /\ (pc = "short_to_long" /\ pc' = pc) =>
          short_open_positions'[coin] = Tail(short_open_positions[coin])
    /\ (pc = "long_to_short" /\ pc' = pc) =>
          long_open_positions'[coin] = Tail(long_open_positions[coin])

(* C18: termination.  Every call ends, by returning or by raising: each      *)
(* iteration of a matching loop removes the head lot or sets the size left   *)
(* to close to 0, and each iteration of a flip's drain loop removes one lot. *)
C18_Termination ==
    /\ <>(pc \in {"done", "raised"})
    /\ [][LoopProgress]_vars

\* the call has returned after a close went twice round its loop and left
\* it with the queue empty and size still to close
C18_Witness ==
    /\ pc = "done"
    /\ \E j, k \in 1..Len(position_tags) :
          /\ j < k
          /\ position_tags[j].ev = position_tags[k].ev
          /\ position_tags[j].by = "close"
    /\ remaining_size > EPS


\* the lots of queue q that are at most epsilon in size
DustLots(q) == {j \in 1..Len(q) : q[j][2] <= EPS}

(* C19: destruction of epsilon lots.  After every fill no queue holds a lot  *)
(* whose remaining size is at most epsilon (1e-9); in particular a lot that  *)
(* a partial close has cut down to epsilon or less is no longer queued.      *)
C19_EpsilonLots ==
    AtFillBoundary =>
        \A c \in Coins :
            /\ DustLots(long_open_positions[c]) = {}
            /\ DustLots(short_open_positions[c]) = {}


\* what the call hands to its caller besides the four averages
AverageKeys == {"todayCount", "last7DaysAverage", "last30DaysAverage", "allTimeAverage"}

Diagnostics == DOMAIN result \ AverageKeys

\* the fills that reached the dispatch and fell through it
IgnoredEvents ==
    Cardinality({k \in 1..Len(sorted_fills) :
                    Effective(sorted_fills[k]) /\ Unclassified(sorted_fills[k])})

\* the size the Positions emitted by the k-th fill add up to
RECURSIVE MatchedBy(_, _)
MatchedBy(k, n) ==
    IF n = 0
    THEN 0
    ELSE MatchedBy(k, n - 1)
         + (IF position_tags[n].ev = k THEN completed_positions[n][3] ELSE 0)

\* the Closes that ended with more than epsilon of their size unmatched
DroppedCloses ==
    Cardinality({k \in 1..Len(sorted_fills) :
                    /\ Effective(sorted_fills[k])
                    /\ EventBranch(sorted_fills[k]) \in CloseBranches
                    /\ EventSize(sorted_fills[k])
                          - MatchedBy(k, Len(completed_positions)) > EPS})

(* C20: diagnostic counters.  A call that ignored an unclassified fill or    *)
(* dropped the excess of a Close returns, besides the four averages, a       *)
(* counter of the ignored fills and a counter of the Closes with dropped     *)
(* excess that its caller can read.                                          *)
C20_DiagnosticCounters ==
    (pc = "done" /\ IgnoredEvents + DroppedCloses > 0) =>
        /\ \E key \in Diagnostics : result[key] = IgnoredEvents
        /\ \E key \in Diagnostics : result[key] = DroppedCloses


-----------------------------------------------------------------------------
Min(a, b) == IF a <= b THEN a ELSE b

\* the sum of the sizes of a list of Positions
RECURSIVE MatchedSum(_)
MatchedSum(ps) == IF ps = <<>> THEN 0 ELSE ps[1][3] + MatchedSum(Tail(ps))

\* the queue the Close just processed works on, as it is after the Close
ClosedQueueAfter ==
    Queue(ClosedSide(EventBranch(sorted_fills[idx])), sorted_fills[idx].coin)

\* how the Close just processed went through its queue: the lots it consumed
\* whole are the first ones of the queue as it was, each emitted with its
\* size and gone; at most one more lot was cut, the last the Close touched,
\* and it is the head with its open time; the other lots are as they were;
\* the total of the queue went down by what was matched
ClosedInQueueOrder ==
    LET before == ClosedQueueBefore
        after  == ClosedQueueAfter
        new    == NewPositions
        whole  == Len(before) - Len(after)
        ts     == sorted_fills[idx].time
    IN  /\ whole \in 0..Len(before)
        /\ Len(new) \in {whole, whole + 1}
        /\ \A j \in 1..whole : new[j] = <<before[j][1], ts, before[j][2]>>
        /\ after = SubSeq(before, whole + 1, Len(before)) \/ Len(new) = whole + 1
        /\ Len(new) = whole + 1 =>
              /\ after # <<>>
              /\ new[whole + 1][1] = before[whole + 1][1]
              /\ new[whole + 1][2] = ts
              /\ new[whole + 1][3] < before[whole + 1][2]
              /\ after[1] = <<before[whole + 1][1],
                              before[whole + 1][2] - new[whole + 1][3],
                              before[whole + 1][3]>>
              /\ Tail(after) = SubSeq(before, whole + 2, Len(before))
        /\ TotalSize(after) = TotalSize(before) - MatchedSum(new)

(* C21: what one Close matches.  For a Close of size c on a queue of total   *)
(* remaining size R, the sizes of the Positions it emits sum to min(c, R)    *)
(* or fall short of it by at most epsilon, and to exactly c when the last    *)
(* lot it touches is cut; the total of the queue goes down by the sum; the   *)
(* lots consumed whole are removed; at most one lot is cut, it is the last   *)
(* one touched and stays at the head with its open time.                     *)
C21_CloseAmount ==
    \A b \in CloseBranches :
       JustDid(b) =>
          LET c == EventSize(sorted_fills[idx])
              R == TotalSize(ClosedQueueBefore)
              m == MatchedSum(NewPositions)
          IN  /\ ClosedInQueueOrder
              /\ m <= Min(c, R)
              /\ m >= Min(c, R) - EPS
              /\ Len(NewPositions) > Len(ClosedQueueBefore) - Len(ClosedQueueAfter)
                    => m = c

\* a Close has consumed one lot whole and cut the next
C21_Witness ==
    \E b \in CloseBranches :
       /\ JustDid(b)
       /\ Len(ClosedQueueBefore) = 2
       /\ Len(ClosedQueueAfter) = 1
       /\ Len(NewPositions) = 2
       /\ MatchedSum(NewPositions) = EventSize(sorted_fills[idx])
       /\ ClosedQueueAfter[1][2] < ClosedQueueBefore[2][2]

\* C21 as stated: the matched sizes sum to exactly min(c, R)
C21_Original ==
    \A b \in CloseBranches :
       JustDid(b) =>
          /\ ClosedInQueueOrder
          /\ MatchedSum(NewPositions) =
                Min(EventSize(sorted_fills[idx]), TotalSize(ClosedQueueBefore))


-----------------------------------------------------------------------------
\* the side on which the branch b opens a lot, "" if it opens none
OpenedSide(b) ==
    IF Opens(b, "long") THEN "long" ELSE IF Opens(b, "short") THEN "short" ELSE ""

\* the k-th fill is an Open, a spot Buy or a Flip that reaches the dispatch
OpensLot(k) ==
    Effective(sorted_fills[k]) /\ OpenedSide(EventBranch(sorted_fills[k])) # ""

\* the k-th fill has been taken up and has done its append
Appended(k) == k < idx \/ (k = idx /\ AtFillBoundary)

\* where the lot opened by the k-th fill is in queue q
PlacesIn(q, k) == {j \in 1..Len(q) : q[j][3] = k}

\* the number of places the lot of the k-th fill has in the queues of side
\* `side` of all coins, and of coin c
RECURSIVE PlacesOnSide(_, _, _)
PlacesOnSide(side, k, cs) ==
    IF cs = {}
    THEN 0
    ELSE LET c == CHOOSE x \in cs : TRUE
         IN  Cardinality(PlacesIn(Queue(side, c), k))
                + PlacesOnSide(side, k, cs \ {c})

Places(k) == PlacesOnSide("long", k, Coins) + PlacesOnSide("short", k, Coins)

\* the size matched so far against the lot of the k-th fill
RECURSIVE MatchedAgainst(_, _)
MatchedAgainst(k, n) ==
    IF n = 0
    THEN 0
    ELSE MatchedAgainst(k, n - 1)
         + (IF position_tags[n].lot = k THEN completed_positions[n][3] ELSE 0)

\* the books of every lot balance in the current state
LotAccounts ==
    \A k \in 1..Len(sorted_fills) :
       LET f == sorted_fills[k]
           matched == MatchedAgainst(k, Len(completed_positions))
       IN  IF k <= idx /\ pc # "raised" /\ OpensLot(k) /\ Appended(k)
           THEN LET q == Queue(OpenedSide(EventBranch(f)), f.coin)
                IN  /\ Places(k) <= 1
                    /\ Places(k) = Cardinality(PlacesIn(q, k))
                    /\ \A j \in PlacesIn(q, k) :
                          /\ q[j][1] = f.time
                          /\ matched = EventSize(f) - q[j][2]
                    /\ Places(k) = 0 => matched = EventSize(f)
                    /\ matched = 0 => Places(k) = 1
           ELSE Places(k) = 0 /\ matched = 0

\* a lot that has left its queue is in no queue after the step
NoReentry ==
    \A k \in 1..Len(sorted_fills) :
       (k <= idx /\ OpensLot(k) /\ Appended(k) /\ Places(k) = 0) => Places(k)' = 0

(* C22: lot lifetime.  Each Open, spot Buy or Flip that reaches the dispatch *)
(* creates exactly one lot, in the queue of its coin and side; a lot that    *)
(* has left its queue never re-enters one; and at every point the sizes of   *)
(* the Positions emitted against a lot sum to its original size minus its    *)
(* remaining size, and to its original size once it has been removed.        *)
C22_LotLifetime == [][LotAccounts /\ LotAccounts' /\ NoReentry]_vars

\* a lot that was cut by one Close and removed by another: two Positions
\* against it, and it is in no queue
C22_Witness ==
    \E k \in 1..idx :
       /\ OpensLot(k)
       /\ Places(k) = 0
       /\ \E i, j \in 1..Len(position_tags) :
             /\ i < j
             /\ position_tags[i].lot = k
             /\ position_tags[j].lot = k
             /\ position_tags[i].ev # position_tags[j].ev


-----------------------------------------------------------------------------
OpenBranches == {"buy", "open_long", "open_short"}

(* C23: what an Open does.  An Open Long, an Open Short or a spot Buy        *)
(* appends one lot, with the time and the size of the fill, to the tail of   *)
(* the queue of its coin and side, emits no Position, and leaves the lots    *)
(* already in that queue and every other queue as they were.                 *)
C23_OpenAppends ==
    \A b \in OpenBranches :
       JustDid(b) =>
          LET f == sorted_fills[idx]
              side == OpenedSide(b)
          IN  /\ Lots(Queue(side, f.coin)) =
                    Append(Lots(QueueBefore(side, f.coin)), <<f.time, EventSize(f)>>)
              /\ Front(Queue(side, f.coin)) = QueueBefore(side, f.coin)
              /\ Queue(Other(side), f.coin) = QueueBefore(Other(side), f.coin)
              /\ \A c \in Coins \ {f.coin} :
                    /\ long_open_positions[c] = long_before[c]
                    /\ short_open_positions[c] = short_before[c]
              /\ Len(completed_positions) = positions_before

\* an Open Long has been appended behind an older lot of different size,
\* with a lot of the other coin open
C23_Witness ==
    /\ JustDid("open_long")
    /\ Len(long_open_positions[coin]) = 2
    /\ long_open_positions[coin][1][2] # long_open_positions[coin][2][2]
    /\ long_open_positions[coin][2][1] = sorted_fills[idx].time
    /\ \E c \in Coins \ {coin} : long_open_positions[c] # <<>>


-----------------------------------------------------------------------------
-----------------------------------------------------------------------------
\* a fill after the k-th, taken up so far, that closes or drains the coin
\* and side of the lot of the k-th fill
ConsumerAfter(k) ==
    \E j \in (k + 1)..idx :
       LET f == sorted_fills[j]
           side == OpenedSide(EventBranch(sorted_fills[k]))
       IN  /\ Effective(f)
           /\ f.coin = sorted_fills[k].coin
           /\ Closes(EventBranch(f), side) \/ Drains(EventBranch(f), side)

\* the lot of the k-th fill is in its queue with the size of the fill
Whole(k) ==
    LET f == sorted_fills[k]
        q == Queue(OpenedSide(EventBranch(f)), f.coin)
    IN  \E j \in 1..Len(q) : q[j] = <<f.time, EventSize(f), k>>

(* C25: no retroactive matching.  Every Position pairs a closing fill with a *)
(* lot pushed by a fill taken up before it; and a lot keeps its full size    *)
(* and stays open as long as no later fill closes or drains its coin and     *)
(* side, whatever Closes before it left unmatched and whatever their         *)
(* timestamps.                                                               *)
C25_NoRetroactive ==
    /\ \A n \in 1..Len(position_tags) : position_tags[n].lot < position_tags[n].ev
    /\ pc # "raised" =>
          \A k \in 1..idx :
             (OpensLot(k) /\ Appended(k) /\ ~ConsumerAfter(k)) => Whole(k)

\* a Close that found less than its size was followed, at the same
\* timestamp and later in the input, by an Open whose lot is whole at the end
C25_Witness ==
    /\ pc = "done"
    /\ completed_positions # <<>>
    /\ \E i, k \in 1..Len(sorted_fills) :
          /\ i < k
          /\ sorted_fills[i].time = sorted_fills[k].time
          /\ EventBranch(sorted_fills[i]) = "close_long"
          /\ MatchedBy(i, Len(completed_positions)) > 0
          /\ MatchedBy(i, Len(completed_positions)) < EventSize(sorted_fills[i])
          /\ EventBranch(sorted_fills[k]) = "open_long"
          /\ Whole(k)


-----------------------------------------------------------------------------
(* C26: hold times are not negative.  For every input, in any order, every   *)
(* Position has open_time <= close_time, every hold duration is >= 0 and     *)
(* each of the four averages is >= 0.                                        *)
C26_NonNegative ==
    /\ \A k \in 1..Len(completed_positions) :
          /\ completed_positions[k][1] <= completed_positions[k][2]
          /\ HoldTime(completed_positions[k]) >= 0
    /\ pc = "done" =>
          /\ result.todayCount.num >= 0
          /\ result.last7DaysAverage.num >= 0
          /\ result.last30DaysAverage.num >= 0
          /\ result.allTimeAverage.num >= 0


-----------------------------------------------------------------------------
\* the open times of queue q do not decrease from head to tail
OldestFirst(q) == \A j \in 1..(Len(q) - 1) : q[j][1] <= q[j + 1][1]

(* C27: queue order.  After every fill the lots of each queue of a coin and  *)
(* side are in non-decreasing order of open_time from head to tail, so the   *)
(* head is a lot with the earliest open_time among those still open there.   *)
C27_QueueOrder ==
    \A c \in Coins :
       \A side \in Sides :
          /\ OldestFirst(Queue(side, c))
          /\ \A j \in 1..Len(Queue(side, c)) :
                Queue(side, c)[1][1] <= Queue(side, c)[j][1]

\* on an input that was out of time order, a Close has cut the head of a
\* queue of two lots of different open times
C27_Witness ==
    /\ JustDid("close_long")
    /\ \E j, k \in 1..Len(fills) : j < k /\ fills[j].time > fills[k].time
    /\ Len(long_open_positions[coin]) = 2
    /\ long_open_positions[coin][1][1] < long_open_positions[coin][2][1]
    /\ long_open_positions[coin][1][2] < EventSize(sorted_fills[long_open_positions[coin][1][3]])


-----------------------------------------------------------------------------
(* C28: positive sizes.  After every fill, and inside every loop, every lot  *)
(* in every queue has a remaining size above 0 and every Position has a      *)
(* matched size above 0: a partial close never brings a lot to zero or       *)
(* below.                                                                    *)
C28_PositiveSizes ==
    /\ \A c \in Coins :
          \A side \in Sides :
             \A j \in 1..Len(Queue(side, c)) : Queue(side, c)[j][2] > 0
    /\ \A k \in 1..Len(completed_positions) : completed_positions[k][3] > 0

\* a partial close has cut a lot down to epsilon or less, and the lot is
\* still queued with what is left of it
C28_Witness ==
    \E b \in CloseBranches :
       /\ JustDid(b)
       /\ Len(NewPositions) = 1
       /\ ClosedQueueAfter # <<>>
       /\ ClosedQueueAfter[1][3] = ClosedQueueBefore[1][3]
       /\ ClosedQueueAfter[1][2] = ClosedQueueBefore[1][2] - NewPositions[1][3]
       /\ ClosedQueueAfter[1][2] <= EPS


-----------------------------------------------------------------------------
\* the tags of the Positions the fill just processed has emitted
NewTags == SubSeq(position_tags, positions_before + 1, Len(position_tags))

\* the k-th fill is a Flip that reached the dispatch
IsFlip(k) ==
    Effective(sorted_fills[k]) /\ EventBranch(sorted_fills[k]) \in Flips

\* a flip has taken no lot from the side it opens on: its Positions all come
\* from the side it drains, and the lots that were open on the other side are
\* still there, as they were, with the flip's lot behind them
TargetUntouched ==
    \A b \in Flips :
       JustDid(b) =>
          LET f == sorted_fills[idx]
              to == Other(DrainedSide(b))
          IN  /\ \A j \in 1..Len(NewTags) : NewTags[j].side = DrainedSide(b)
              /\ Len(Queue(to, f.coin)) = Len(QueueBefore(to, f.coin)) + 1
              /\ SubSeq(Queue(to, f.coin), 1, Len(QueueBefore(to, f.coin))) =
                    QueueBefore(to, f.coin)
              /\ Queue(to, f.coin)[Len(Queue(to, f.coin))] =
                    <<f.time, EventSize(f), idx>>

\* once a Close has taken from a lot a flip opened, no lot appended to that
\* queue before the flip is left in it
OlderLotsFirst ==
    \A j \in 1..Len(position_tags) :
       LET t == position_tags[j]
       IN  (IsFlip(t.lot) /\ t.by = "close") =>
              \A i \in 1..Len(Queue(t.side, t.coin)) :
                 Queue(t.side, t.coin)[i][3] >= t.lot

\* a flip that found nothing to drain has emitted nothing
EmptyFlipOpens ==
    \A b \in Flips :
       (JustDid(b) /\ QueueBefore(DrainedSide(b), sorted_fills[idx].coin) = <<>>) =>
          NewPositions = <<>>

(* C29: a flip and the side it opens on.  A flip closes none of the lots     *)
(* already open on the side it opens on and appends its lot behind them, so  *)
(* a later Close on that side takes the older lots before the lot the flip   *)
(* opened; a flip whose own side is empty emits no Position and still opens  *)
(* its lot.                                                                  *)
C29_FlipTarget == TargetUntouched /\ OlderLotsFirst /\ EmptyFlipOpens

\* a Close has just taken a lot that was open before a flip and then the lot
\* the flip opened behind it; the flip had nothing to drain
C29_Witness ==
    /\ \E b \in CloseBranches : JustDid(b)
    /\ Len(NewTags) = 2
    /\ ~IsFlip(NewTags[1].lot)
    /\ IsFlip(NewTags[2].lot)
    /\ NewTags[1].lot < NewTags[2].lot
    /\ \A j \in 1..Len(position_tags) : position_tags[j].by = "close"


-----------------------------------------------------------------------------
\* the number of Positions in the bucket that starts at `since`
BucketCount(since) == Len(HoldTimesSince(completed_positions, since))

\* a Position that is in a bucket is in every wider one
BucketsNested ==
    /\ \A k \in 1..Len(completed_positions) :
          LET close_dt == FromTimestamp(completed_positions[k][2])
          IN  /\ close_dt >= TodayStart => close_dt >= WeekAgo
              /\ close_dt >= WeekAgo => close_dt >= MonthAgo
    /\ BucketCount(TodayStart) <= BucketCount(WeekAgo)
    /\ BucketCount(WeekAgo) <= BucketCount(MonthAgo)
    /\ BucketCount(MonthAgo) <= Len(completed_positions)

\* every Position was made by a Close or a Flip and closes at that fill's
\* time, and what is still queued of a lot is in none of them: the Positions
\* of the lot add up to what the lot has lost
OpenLotsUncounted ==
    /\ Len(position_tags) = Len(completed_positions)
    /\ \A n \in 1..Len(position_tags) :
          /\ EventBranch(sorted_fills[position_tags[n].ev]) \in CloseBranches \cup Flips
          /\ completed_positions[n][2] = sorted_fills[position_tags[n].ev].time
    /\ \A c \in Coins :
          \A side \in Sides :
             \A j \in 1..Len(Queue(side, c)) :
                LET lot == Queue(side, c)[j]
                IN  MatchedAgainst(lot[3], Len(completed_positions)) =
                       EventSize(sorted_fills[lot[3]]) - lot[2]
    /\ completed_positions = <<>> => \A key \in AverageKeys : result[key] = Zero

(* C30: bucket nesting.  In the result of a call every Position counted in   *)
(* today is counted in the last 7 days, every one of those in the last 30    *)
(* days and every one of those in all time, so the member counts do not      *)
(* decrease from today to all time; a today value other than 0 means that    *)
(* the three wider buckets are not empty; and lots still open at the end of  *)
(* the input are in no bucket.                                               *)
C30_BucketNesting ==
    pc = "done" =>
       /\ BucketsNested
       /\ result.todayCount.num # 0 =>
             /\ BucketCount(WeekAgo) > 0
             /\ BucketCount(MonthAgo) > 0
             /\ completed_positions # <<>>
             /\ result.last7DaysAverage # Zero
             /\ result.last30DaysAverage # Zero
             /\ result.allTimeAverage # Zero
       /\ OpenLotsUncounted

\* a call has returned a today value other than 0, with one Position closed
\* today and another closed earlier in the week
C30_Witness ==
    /\ pc = "done"
    /\ result.todayCount.num # 0
    /\ BucketCount(TodayStart) = 1
    /\ BucketCount(WeekAgo) = 2

====
